---- MODULE Spec2Model ----
(***************************************************************************)
(* A model of the ServiceNow Table API client (ServiceNowClient): the      *)
(* search-query compiler of search(), the empty-result policy, and the     *)
(* "search, then act on every match" batch operations.                     *)
(*                                                                         *)
(* Python strings are TLA+ strings (concatenation is \o, slicing is        *)
(* SubSeq).  Every other Python value is a record [t, s, items]: t is the  *)
(* Python type, s the text of a str, items the elements of a list/tuple.   *)
(* One step of the model is the code that runs between two HTTP exchanges: *)
(* the server's answer is the step's input.                                *)
(***************************************************************************)
EXTENDS Integers, Sequences, FiniteSets, TLC

\* ------------------------------------------------------------------ bounds
MaxTriples == 2     \* longest nested search_list that is enumerated
MaxRecords == 2     \* most records a search response carries
MaxAttach == 2      \* most attachments an attachment listing carries
MaxMixed == 3       \* longest search_list mixing triples and strings

\* ------------------------------------------------------- Python values
PyStr(text) == [t |-> "str", s |-> text, items |-> <<>>]
PyList(xs) == [t |-> "list", s |-> "", items |-> xs]
PyTuple(xs) == [t |-> "tuple", s |-> "", items |-> xs]
\* An int, held as its decimal text (what str() gives).
PyInt(text) == [t |-> "int", s |-> text, items |-> <<>>]

\* ListInsert2 as it would be had the code inserted None.
ListInsert2_none(xs) == Append(xs, PyStr("None"))

\* list.insert(2, '') on a list: the new element lands at index 2, or at the
\* end when the list is shorter.
ListInsert2(xs) ==
    IF Len(xs) <= 2 THEN Append(xs, PyStr(""))
    ELSE SubSeq(xs, 1, 2) \o <<PyStr("")>> \o SubSeq(xs, 3, Len(xs))

\* What `for line in v` yields: the elements of a list or tuple, the
\* one-character strings of a str.
PyIter(v) ==
    IF v.t = "str" THEN [i \in 1..Len(v.s) |-> PyStr(SubSeq(v.s, i, i))]
    ELSE v.items

\* str.lower(), character by character.
LowerChar(c) ==
    CASE c = "A" -> "a" [] c = "B" -> "b" [] c = "C" -> "c" [] c = "D" -> "d"
      [] c = "E" -> "e" [] c = "F" -> "f" [] c = "G" -> "g" [] c = "H" -> "h"
      [] c = "I" -> "i" [] c = "J" -> "j" [] c = "K" -> "k" [] c = "L" -> "l"
      [] c = "M" -> "m" [] c = "N" -> "n" [] c = "O" -> "o" [] c = "P" -> "p"
      [] c = "Q" -> "q" [] c = "R" -> "r" [] c = "S" -> "s" [] c = "T" -> "t"
      [] c = "U" -> "u" [] c = "V" -> "v" [] c = "W" -> "w" [] c = "X" -> "x"
      [] c = "Y" -> "y" [] c = "Z" -> "z" [] OTHER -> c

RECURSIVE Lower(_)
Lower(text) ==
    IF Len(text) = 0 THEN ""
    ELSE LowerChar(SubSeq(text, 1, 1)) \o Lower(SubSeq(text, 2, Len(text)))

\* str(x) / '%s' % x of a value: the text of a str, the repr of a list or
\* tuple (elements by repr, ', ' between them; a 1-tuple ends in ',').
RECURSIVE PyRepr(_)
RECURSIVE ReprJoin(_, _)
ReprJoin(xs, i) ==
    IF i > Len(xs) THEN ""
    ELSE (IF i > 1 THEN ", " ELSE "") \o PyRepr(xs[i]) \o ReprJoin(xs, i + 1)

PyRepr(v) ==
    CASE v.t = "str" -> "'" \o v.s \o "'"
      [] v.t = "int" -> v.s
      [] v.t = "list" -> "[" \o ReprJoin(v.items, 1) \o "]"
      [] OTHER -> "(" \o ReprJoin(v.items, 1)
                      \o (IF Len(v.items) = 1 THEN "," ELSE "") \o ")"

PyToStr(v) == IF v.t \in {"str", "int"} THEN v.s ELSE PyRepr(v)

\* bool(x) of a value.
Truthy(x) ==
    CASE x.t = "str" -> x.s # ""
      [] x.t = "int" -> x.s # "0"
      [] x.t = "dict" -> x.s # "{}"
      [] OTHER -> Len(x.items) > 0

\* An insertion-ordered dict literal is the sequence of its (key, value) pairs.
DictHas(d, k) == \E i \in 1..Len(d) : d[i][1] = k
DictGet(d, k) == d[CHOOSE i \in 1..Len(d) : d[i][1] = k][2]
DictKeys(d) == PyTuple([i \in 1..Len(d) |-> PyStr(d[i][1])])

\* ------------------------------------------------- the operator vocabulary
operators ==
    << <<"is", "=">>,
       <<"is not", "!=">>,
       <<"is one of", "IN">>,
       <<"starts with", "STARTSWITH">>,
       <<"ends with", "ENDSWITH">>,
       <<"contains", "LIKE">>,
       <<"does not contain", "NOT LIKE">>,
       <<"less than or is", "<=">>,
       <<"greater than or is", ">=">>,
       <<"same as", "SAMEAS">>,
       <<"is empty", "ISEMPTY">>,
       <<"is not empty", "ISNOTEMPTY">>,
       <<"is anything", "ANYTHING">>,
       <<"is empty string", "EMPTYSTRING">> >>

\* OperatorMessage as it would be had the code listed the dict's values.
OperatorMessage_tokens ==
    "Operator value invalid. Choose one of the following:\n"
        \o PyToStr(PyTuple([i \in 1..Len(operators) |-> PyStr(operators[i][2])]))

OperatorMessage ==
    "Operator value invalid. Choose one of the following:\n"
        \o PyToStr(DictKeys(operators))

FormatMessage == "\"searchList\" format incorrect. Simple or nested list expected"

\* ------------------------------------------- search: the query compiler
\* The compiler's working state: self.url, whether the local single_list is
\* bound, the elements of search_list (a 2-element triple is extended in
\* place), and the exception that ended it ("none" while running).
CompileStart(url0, search_list) ==
    [url |-> url0, single_list |-> FALSE, items |-> PyIter(search_list),
     exc |-> "none", msg |-> ""]

\* search_line as it would be had it inserted '' without first reading
\* line[2].
search_line_insert_always(st, i) ==
    LET line == st.items[i] IN
    IF line.t # "list" THEN [st EXCEPT !.single_list = TRUE]
    ELSE IF Len(line.items) < 2 THEN [st EXCEPT !.exc = "IndexError"]
    ELSE
      LET full == ListInsert2(line.items)
          field == full[1]
          operator == full[2]
          value == full[3]
          st1 == [st EXCEPT !.items[i] = PyList(full)]
      IN  IF operator.t # "str" THEN [st1 EXCEPT !.exc = "AttributeError"]
          ELSE IF ~DictHas(operators, Lower(operator.s))
          THEN [st1 EXCEPT !.exc = "InvalidValue", !.msg = OperatorMessage]
          ELSE [st1 EXCEPT !.url = @ \o "^" \o PyToStr(field)
                                     \o DictGet(operators, Lower(operator.s))
                                     \o PyToStr(value)]

\* One pass of the body of `for line in search_list`.
search_line(st, i) ==
    LET line == st.items[i] IN
    IF line.t # "list" THEN [st EXCEPT !.single_list = TRUE]
    ELSE IF Len(line.items) < 2 THEN [st EXCEPT !.exc = "IndexError"]
    ELSE
      LET full == IF Len(line.items) < 3 THEN ListInsert2(line.items)
                  ELSE line.items
          field == full[1]
          operator == full[2]
          value == full[3]
          st1 == [st EXCEPT !.items[i] = PyList(full)]
      IN  IF operator.t # "str" THEN [st1 EXCEPT !.exc = "AttributeError"]
          ELSE IF ~DictHas(operators, Lower(operator.s))
          THEN [st1 EXCEPT !.exc = "InvalidValue", !.msg = OperatorMessage]
          ELSE [st1 EXCEPT !.url = @ \o "^" \o PyToStr(field)
                                     \o DictGet(operators, Lower(operator.s))
                                     \o PyToStr(value)]

\* search_loop as it would be had the loop ended after its first pass.
search_loop_first(st, i) ==
    IF i > Len(st.items) \/ st.exc # "none" THEN st ELSE search_line(st, i)

RECURSIVE search_loop(_, _)
search_loop(st, i) ==
    IF i > Len(st.items) \/ st.exc # "none" THEN st
    ELSE search_loop(search_line(st, i), i + 1)

\* FormatOne as it would be had the code formatted with %r.
FormatOne_repr(x) == [exc |-> "none", text |-> PyRepr(x)]

\* '%s' % (x): a tuple operand is taken as the argument tuple.
FormatOne(x) ==
    IF x.t = "tuple"
    THEN IF Len(x.items) = 1 THEN [exc |-> "none", text |-> PyToStr(x.items[1])]
         ELSE [exc |-> "TypeError", text |-> ""]
    ELSE [exc |-> "none", text |-> PyToStr(x)]

\* The block after the loop: the simple-list branch, entered when single_list
\* is bound; reading it unbound raises UnboundLocalError, which is swallowed.
search_simple(st, search_list) ==
    IF ~st.single_list THEN st
    ELSE IF search_list.t # "list"
    THEN [st EXCEPT !.exc = "InvalidFormat", !.msg = FormatMessage]
    ELSE IF Len(st.items) < 2 THEN [st EXCEPT !.exc = "IndexError"]
    ELSE IF st.items[2].t # "str" THEN [st EXCEPT !.exc = "AttributeError"]
    ELSE IF ~DictHas(operators, Lower(st.items[2].s))
    THEN [st EXCEPT !.exc = "InvalidValue", !.msg = OperatorMessage]
    ELSE
      LET st1 == [st EXCEPT !.url = @ \o "^" \o PyToStr(st.items[1])
                                      \o DictGet(operators, Lower(st.items[2].s))]
      IN  IF Len(st.items) < 3
          THEN [st1 EXCEPT !.items = ListInsert2(st.items),
                           !.url = @ \o FormatOne(ListInsert2(st.items)[3]).text]
          ELSE LET f == FormatOne(st.items[3]) IN
               IF f.exc # "none" THEN [st1 EXCEPT !.exc = f.exc]
               ELSE [st1 EXCEPT !.url = @ \o f.text]

\* The whole of "Validating, parsing searchList elements to form query part
\* of url": a search_list that cannot be iterated raises TypeError.
search_query(url0, search_list) ==
    IF search_list.t = "int"
    THEN [CompileStart(url0, PyList(<<>>)) EXCEPT !.exc = "TypeError"]
    ELSE search_simple(search_loop(CompileStart(url0, search_list), 1),
                       search_list)

\* search_list as the caller sees it after the call.
ArgAfter(search_list, st) ==
    IF search_list.t \in {"list", "tuple"}
    THEN [search_list EXCEPT !.items = st.items]
    ELSE search_list

\* ------------------------------------------------------ more of Python
\* str(n) of a non-negative int.
Digit(d) ==
    CASE d = 0 -> "0" [] d = 1 -> "1" [] d = 2 -> "2" [] d = 3 -> "3"
      [] d = 4 -> "4" [] d = 5 -> "5" [] d = 6 -> "6" [] d = 7 -> "7"
      [] d = 8 -> "8" [] OTHER -> "9"

RECURSIVE IntToStr(_)
IntToStr(n) == IF n < 10 THEN Digit(n) ELSE IntToStr(n \div 10) \o Digit(n % 10)

\* A result dict (str -> str) is a function; d[k] = v is DictSet.
EmptyDict == [k \in {} |-> ""]
DictSet(d, k, v) == [x \in DOMAIN d \cup {k} |-> IF x = k THEN v ELSE d[x]]

\* ------------------------------------------------------ the two clients
\* "module" is src/service_now_client.py; "package" is
\* src/servicenow_api_client/service_now_client.py, whose table operations
\* take the extra argument custom.
Variants == {"module", "package"}

\* __validate_format of the package client: the exception it raises, if any.
validate_format(var, var_label, instance_type, instance_type_label) ==
    IF var.t # instance_type
    THEN [exc |-> "InvalidFormat",
          msg |-> var_label \o " format incorrect. " \o instance_type_label
                      \o "expected."]
    ELSE [exc |-> "none", msg |-> ""]

\* __define_table of the package client.
define_table(table, custom) ==
    IF custom THEN table ELSE PyStr("/api/now/table/" \o PyToStr(table))

\* The path of a table's endpoint, as each client builds it.
TablePath(v, table, custom) ==
    IF v = "package" THEN PyToStr(define_table(table, custom))
    ELSE "/api/now/table/" \o PyToStr(table)

\* ------------------------------------------------------ the server
\* The records of the table and the answers a request can get.  An answer is
\* [status_code, result, error]: json()['result'] of a success, json()['error']
\* of a failure (the other is absent and holds the empty value here).
TableRecords ==
    { [sys_id |-> "a1", number |-> "INC1"],
      [sys_id |-> "b2", number |-> "INC2"],
      [sys_id |-> "c3", number |-> "INC3"] }

RECURSIVE SeqsOver(_, _)
\* The sequences of at most n distinct elements of S.
SeqsOver(S, n) ==
    IF n = 0 THEN {<<>>}
    ELSE LET shorter == SeqsOver(S, n - 1) IN
         shorter \cup
         { Append(q, x) : <<q, x>> \in
             { <<q, x>> \in shorter \X S :
                 \A i \in 1..Len(q) : q[i] # x } }

Errors ==
    { [status_code |-> 404, result |-> <<>>, error |-> "No Record found"],
      [status_code |-> 500, result |-> <<>>, error |-> "Server fault"] }

Success(code, result) == [status_code |-> code, result |-> result, error |-> ""]

\* A body with records under a status that is not search's success code.
Created == Success(201, <<[sys_id |-> "a1", number |-> "INC1"]>>)

SearchAnswers ==
    { Success(200, rs) : rs \in SeqsOver(TableRecords, MaxRecords) }
        \cup Errors \cup {Created}

\* The answers of an endpoint that answers one object (create, the e-mail
\* endpoints): the object is held as the one element of result.
ObjectAnswers ==
    { Success(code, <<[sys_id |-> "d4", number |-> "INC4"]>>) :
          code \in {200, 201} } \cup Errors

NoResponse == [status_code |-> 0, result |-> <<>>, error |-> ""]

\* ------------------------------------------------------ the state
VARIABLES
    variant,        \* which client class the instance is
    self,           \* the instance's attributes
    pc,             \* "idle", the exchange the call waits in, or "done"
    op,             \* the public method running
    args,           \* its arguments
    incident_list,  \* local of the batch methods: what search returned
    idx,            \* position of `for item in incident_list`
    result,         \* local result dict
    attachment_data,\* local of get_file/delete_file: the listing's records
    aidx,           \* position of `for item_attach in attachment_data['result']`
    file_found,     \* local file_type_found / file_found
    file_found_all, \* local file_type_found_all / file_found_all
    ret,            \* how the call ended: returned value or raised exception
    requests,       \* the HTTP requests issued by the call, in order
    bodies,         \* the data= of each of those requests, in the same order
    answers,        \* the answers the call has read, in order
    clients,        \* two invocations at once: self.url and self.response of
                    \* each client instance
    threads         \* two invocations at once: the locals and the position
                    \* of each invocation's thread

vars == <<variant, self, pc, op, args, incident_list, idx, result,
          attachment_data, aidx, file_found, file_found_all, ret, requests,
          bodies, answers, clients, threads>>

\* A dict argument, held as its json.dumps text.
PyDict(text) == [t |-> "dict", s |-> text, items |-> <<>>]

\* The arguments of a call; search_list_now is the list object as the call
\* has left it so far, search_list its value when the call was made;
\* table_lower is change_state's local `table` once it is rebound to
\* table.lower().
NoArgs == [table |-> PyStr(""), table_lower |-> PyStr(""),
           search_list |-> PyList(<<>>),
           search_list_now |-> PyList(<<>>), fields |-> PyStr(""),
           custom |-> FALSE, data |-> PyDict("{}"), state |-> PyStr(""),
           type |-> PyStr(""), file_name |-> PyStr(""),
           subject |-> PyStr(""), message |-> PyStr(""), to |-> PyStr(""),
           cc |-> PyStr(""), bcc |-> PyStr(""), sys_id |-> PyStr("")]
NoRet == [kind |-> "none", exc |-> "", msg |-> "", val |-> <<>>]
Raise(exc, msg) == [kind |-> "raise", exc |-> exc, msg |-> msg, val |-> <<>>]
Return(kind, val) == [kind |-> kind, exc |-> "", msg |-> "", val |-> val]

\* __init__
init(instance, user, password, empty_error) ==
    [username |-> user,
     password |-> password,
     headers |-> << <<"Content-Type", "application/json">>,
                    <<"Accept", "application/json">> >>,
     instance |-> "https://" \o instance \o ".service-now.com",
     empty_error |-> empty_error,
     url |-> "",
     response |-> NoResponse,
     data |-> ""]

Request(verb, url) == [verb |-> verb, url |-> url]

\* The state as one record, so that the code between two exchanges is an
\* operator from state to state.
Cur ==
    [pc |-> pc, self |-> self, args |-> args, incident_list |-> incident_list,
     idx |-> idx, result |-> result, attachment_data |-> attachment_data,
     aidx |-> aidx, file_found |-> file_found,
     file_found_all |-> file_found_all, ret |-> ret, requests |-> requests,
     bodies |-> bodies, answers |-> answers]

Become(c) ==
    \E n \in {c} :
        /\ pc' = n.pc
        /\ self' = n.self
        /\ args' = n.args
        /\ incident_list' = n.incident_list
        /\ idx' = n.idx
        /\ result' = n.result
        /\ attachment_data' = n.attachment_data
        /\ aidx' = n.aidx
        /\ file_found' = n.file_found
        /\ file_found_all' = n.file_found_all
        /\ ret' = n.ret
        /\ requests' = n.requests
        /\ bodies' = n.bodies
        /\ answers' = n.answers
        /\ UNCHANGED <<clients, threads>>

\* The call reads the answer to its last request.
Heard(c, resp) == [c EXCEPT !.answers = Append(@, resp)]

\* The call ends: it returns a value or raises.
Finish(c, r) == [c EXCEPT !.pc = "done", !.ret = r]

\* self.url = url, then requests.<verb>(url=self.url, ..., data=data): the
\* call waits for the answer in `wait`.
SendData(c, verb, url, data, wait) ==
    [c EXCEPT !.self.url = url,
              !.requests = Append(@, Request(verb, url)),
              !.bodies = Append(@, data),
              !.pc = wait]

\* The same for a request without data=.
Send(c, verb, url, wait) == SendData(c, verb, url, "", wait)

\* 'Error Code ' + str(status_code) + ', ' + str(json()['error'])
ErrorCode(resp) ==
    "Error Code " \o IntToStr(resp.status_code) \o ", " \o resp.error

\* str() of a record of the payload.
RecordRepr(r) ==
    "{'sys_id': '" \o r.sys_id \o "', 'number': '" \o r.number \o "'}"

RECURSIVE RecordsRepr(_, _)
RecordsRepr(rs, i) ==
    IF i > Len(rs) THEN ""
    ELSE (IF i > 1 THEN ", " ELSE "") \o RecordRepr(rs[i])
             \o RecordsRepr(rs, i + 1)

\* str(self.response.json()): the body of a failure, or a body with 'result'
\* (a list of records, or one record when the endpoint answers one object).
JsonRepr(resp, object) ==
    IF resp.error # "" THEN "{'error': '" \o resp.error \o "'}"
    ELSE "{'result': "
             \o (IF object THEN RecordRepr(resp.result[1])
                 ELSE "[" \o RecordsRepr(resp.result, 1) \o "]")
             \o "}"

\* 'Error code = ' + str(status_code) + ' , Error details = ' + str(json())
ErrorDetails(resp) ==
    "Error code = " \o IntToStr(resp.status_code) \o " , Error details = "
        \o JsonRepr(resp, FALSE)

\* The same where the endpoint answers one object.
ErrorDetailsObject(resp) ==
    "Error code = " \o IntToStr(resp.status_code) \o " , Error details = "
        \o JsonRepr(resp, TRUE)

\* -------------------------------------------------------------- search
\* search up to its HTTP request: the URL prefix, the validation of table
\* and fields, the query, the fields suffix.  exc is "none" when the GET is
\* to be issued at url.
search_begin(v, s, table, search_list, custom, fields) ==
    LET url0 == s.instance \o TablePath(v, table, custom)
                    \o "?sysparm_limit=50&sysparm_query=sysparm_query="
        okay == [exc |-> "none", msg |-> ""]
        bad ==
          IF v = "module"
          THEN IF fields.t # "str"
               THEN [exc |-> "InvalidFormat",
                     msg |-> "\"fields\" format incorrect. String expected"]
               ELSE IF table.t # "str"
               THEN [exc |-> "InvalidFormat",
                     msg |-> "\"table\" format incorrect. String expected"]
               ELSE okay
          ELSE IF validate_format(table, "Table", "str", "String").exc # "none"
               THEN validate_format(table, "Table", "str", "String")
               ELSE validate_format(fields, "Fields", "str", "String")
        q == search_query(url0, search_list)
    IN  IF bad.exc # "none"
        THEN [exc |-> bad.exc, msg |-> bad.msg, url |-> url0,
              search_list |-> search_list]
        ELSE IF q.exc # "none"
        THEN [exc |-> q.exc, msg |-> q.msg, url |-> q.url,
              search_list |-> ArgAfter(search_list, q)]
        ELSE [exc |-> "none", msg |-> "",
              url |-> q.url \o "&sysparm_fields=" \o PyToStr(fields),
              search_list |-> ArgAfter(search_list, q)]

\* search_end as it would be had it not consulted empty_error.
search_end_lenient(s, resp) ==
    IF resp.status_code # 200
    THEN Raise("ResponseError", ErrorDetails(resp))
    ELSE IF Len(resp.result) = 0 THEN Return("false", <<>>)
    ELSE Return("list", resp.result)

\* search from the answer on: what it returns or raises.
search_end(s, resp) ==
    IF resp.status_code # 200
    THEN Raise("ResponseError", ErrorDetails(resp))
    ELSE IF Len(resp.result) = 0
    THEN IF s.empty_error THEN Raise("EmptyResult", "No record found")
         ELSE Return("false", <<>>)
    ELSE Return("list", resp.result)

\* The third positional argument of update's self.search(table, search_list,
\* 'sys_id'): fields in the module client; in the package client it binds
\* custom, which __define_table tests for truth, and fields keeps its
\* default ''.
update_search_custom(v, a) ==
    IF v = "package" THEN Truthy(PyStr("sys_id")) ELSE a.custom
update_search_fields(v) ==
    IF v = "package" THEN PyStr("") ELSE PyStr("sys_id")

\* The call of search by method o with arguments a (a.table and a.fields
\* are what the method passes to search): the state in which the GET is
\* out, or the call has ended with the exception of search.
CallSearch(v, c, o, a) ==
    LET table == IF o = "change_state" THEN a.table_lower ELSE a.table
        custom == IF o = "update" THEN update_search_custom(v, a) ELSE a.custom
        b == search_begin(v, c.self, table, a.search_list, custom, a.fields)
        c1 == [c EXCEPT !.self.url = b.url,
                        !.args = [a EXCEPT !.search_list_now = b.search_list]]
    IN  IF b.exc # "none" THEN Finish(c1, Raise(b.exc, b.msg))
        ELSE Send(c1, "GET", b.url, "search")

\* ------------------------------------------- the batch methods, shared
Okay == [exc |-> "none", msg |-> ""]
\* `if not isinstance(var, ty): raise InvalidFormat(msg)` of the module client.
Check(var, ty, msg) ==
    IF var.t # ty THEN [exc |-> "InvalidFormat", msg |-> msg] ELSE Okay
FirstOf(a, b) == IF a.exc # "none" THEN a ELSE b

TableMsg == "\"table\" format incorrect. String expected"

\* "Terminate operation if no incidents are found": what the method does
\* with a falsy incident_list.
not_found(s) ==
    IF s.empty_error THEN Raise("EmptyResult", "No record found")
    ELSE Return("false", <<>>)

\* A method has validated its arguments (outcome bad) and calls search.
Enter(v, c, o, a, bad) ==
    IF bad.exc # "none" THEN Finish([c EXCEPT !.args = a], Raise(bad.exc, bad.msg))
    ELSE CallSearch(v, c, o, a)

\* ------------------------------------------------------------- update
update_validate(v, a) ==
    IF v = "module"
    THEN FirstOf(Check(a.data, "dict", "\"data\" format incorrect. Dictionary expected"),
                 Check(a.table, "str", TableMsg))
    ELSE FirstOf(validate_format(a.table, "Table", "str", "String"),
                 validate_format(a.data, "Data", "dict", "Dictionary"))

update(v, c, a) ==
    Enter(v, c, "update", [a EXCEPT !.fields = update_search_fields(v)],
          update_validate(v, a))

\* update_verb as it would be had both clients used PUT.
update_verb_put(v) == "PUT"

\* The verb of update's per-record request.
update_verb(v) == IF v = "package" THEN "PATCH" ELSE "PUT"

\* The top of `for item in incident_list`: the request for the next record,
\* or `return result`.
update_loop(v, c) ==
    IF c.idx > Len(c.incident_list) THEN Finish(c, Return("dict", c.result))
    ELSE SendData(c, update_verb(v),
                  c.self.instance \o TablePath(v, c.args.table, c.args.custom)
                      \o "/" \o c.incident_list[c.idx].sys_id,
                  c.args.data.s,
                  "item")

\* update_item as it would be had a failure ended the loop.
update_item_abort(c, resp) ==
    [c EXCEPT !.self.response = resp,
              !.result = DictSet(@, c.incident_list[c.idx].sys_id,
                                 IF resp.status_code # 200 THEN ErrorCode(resp)
                                 ELSE "true"),
              !.idx = IF resp.status_code # 200 THEN Len(c.incident_list) + 1
                      ELSE @ + 1]

\* The rest of the loop body, once the answer is in.
update_item(c, resp) ==
    [c EXCEPT !.self.response = resp,
              !.result = DictSet(@, c.incident_list[c.idx].sys_id,
                                 IF resp.status_code # 200 THEN ErrorCode(resp)
                                 ELSE "true"),
              !.idx = @ + 1]

\* ------------------------------------------------------------- delete
delete_validate(v, a) ==
    IF v = "module" THEN Check(a.table, "str", TableMsg)
    ELSE validate_format(a.table, "Table", "str", "String")

delete(v, c, a) ==
    Enter(v, c, "delete", [a EXCEPT !.fields = PyStr("sys_id")],
          delete_validate(v, a))

\* delete_loop as it would be had every pass addressed the first record.
delete_loop_first(v, c) ==
    IF c.idx > Len(c.incident_list) THEN Finish(c, Return("dict", c.result))
    ELSE Send(c, "DELETE",
              c.self.instance \o TablePath(v, c.args.table, c.args.custom)
                  \o "/" \o c.incident_list[1].sys_id,
              "item")

\* The top of `for item in incident_list`: the DELETE of the next record, or
\* `return result`.
delete_loop(v, c) ==
    IF c.idx > Len(c.incident_list) THEN Finish(c, Return("dict", c.result))
    ELSE Send(c, "DELETE",
              c.self.instance \o TablePath(v, c.args.table, c.args.custom)
                  \o "/" \o c.incident_list[c.idx].sys_id,
              "item")

delete_item(c, resp) ==
    [c EXCEPT !.self.response = resp,
              !.result = DictSet(@, c.incident_list[c.idx].sys_id,
                                 IF resp.status_code # 204 THEN ErrorCode(resp)
                                 ELSE "true"),
              !.idx = @ + 1]

\* ------------------------------------------------------- change_state
inc_state ==
    << <<"new", "1">>, <<"in progress", "2">>, <<"on hold", "3">>,
       <<"resolved", "6">>, <<"closed", "7">>, <<"canceled", "8">> >>
inc_notes ==
    << <<"new", "">>, <<"in progress", "">>, <<"on hold", "">>,
       <<"resolved", "Incident resolved">>, <<"closed", "Incident closed">>,
       <<"canceled", "Incident canceled">> >>
inc_close_code ==
    << <<"new", "">>, <<"in progress", "">>, <<"on hold", "">>,
       <<"resolved", "Solved (Permanently)">>,
       <<"closed", "Solved (Permanently)">>,
       <<"canceled", "Closed/Resolved by Caller">> >>
prb_state ==
    << <<"open", "1">>, <<"known error", "2">>, <<"pending change", "3">>,
       <<"closed/resolved", "4">> >>
prb_work_notes ==
    << <<"open", "Problem in open state">>,
       <<"known error", "Problem has known error">>,
       <<"pending change", "Problem is pending change">>,
       <<"closed/resolved", "Problem resolved">> >>
prb_close_notes ==
    << <<"open", "">>, <<"known error", "">>, <<"pending change", "">>,
       <<"closed/resolved", "Problem closed/resolved">> >>

change_state_validate(v, a) ==
    IF v = "module"
    THEN FirstOf(Check(a.state, "str", "\"state\" format incorrect. String expected"),
                 Check(a.table, "str", TableMsg))
    ELSE FirstOf(validate_format(a.table, "Table", "str", "String"),
                 validate_format(a.state, "State", "str", "String"))

\* table = table.lower() precedes the search.
change_state(v, c, a) ==
    Enter(v, c, "change_state",
          [a EXCEPT !.fields = PyStr("number,sys_id"),
                    !.table_lower = IF a.table.t = "str"
                                    THEN PyStr(Lower(a.table.s)) ELSE a.table],
          change_state_validate(v, a))

\* The request body for a problem and for any other table.
prb_data(st) ==
    "{\"close_notes\":\"" \o DictGet(prb_close_notes, st)
        \o "\",\"work_notes\":\"" \o DictGet(prb_work_notes, st)
        \o "\",\"state\":\"" \o DictGet(prb_state, st) \o "\"}"
\* inc_data as it would be had close_code and close_notes changed places.
inc_data_swapped(st) ==
    "{\"close_code\":\"" \o DictGet(inc_notes, st)
        \o "\",\"close_notes\":\"" \o DictGet(inc_close_code, st)
        \o "\",\"state\":\"" \o DictGet(inc_state, st) \o "\"}"

inc_data(st) ==
    "{\"close_code\":\"" \o DictGet(inc_close_code, st)
        \o "\",\"close_notes\":\"" \o DictGet(inc_notes, st)
        \o "\",\"state\":\"" \o DictGet(inc_state, st) \o "\"}"

\* change_state_loop as it would be had the state name been looked up only
\* from the second record on.
change_state_loop_late(v, c) ==
    IF c.idx > Len(c.incident_list) THEN Finish(c, Return("dict", c.result))
    ELSE
      LET item == c.incident_list[c.idx]
          st == Lower(c.args.state.s)
          problem == c.args.table_lower.s = "problem"
          url == IF problem
                 THEN c.self.instance \o "/api/now/table/problem/" \o item.sys_id
                 ELSE c.self.instance
                        \o TablePath(v, c.args.table_lower, c.args.custom)
                        \o "/" \o item.sys_id
          states == IF problem THEN prb_state ELSE inc_state
      IN  IF ~DictHas(states, st) /\ c.idx > 1
          THEN Finish([c EXCEPT !.self.url = url],
                      Raise("InvalidValue",
                            "\"state\" invalid. Choose one of the following:\n"
                                \o PyToStr(DictKeys(states))))
          ELSE LET data == IF ~DictHas(states, st) THEN "{}"
                           ELSE IF problem THEN prb_data(st) ELSE inc_data(st)
               IN  SendData([c EXCEPT !.self.data = data], "PUT", url, data,
                            "item")

\* The top of `for item in incident_list`: the URL and the body for the next
\* record (the lookup of the state name raises InvalidValue), its PUT, or
\* `return result`.
change_state_loop(v, c) ==
    IF c.idx > Len(c.incident_list) THEN Finish(c, Return("dict", c.result))
    ELSE
      LET item == c.incident_list[c.idx]
          st == Lower(c.args.state.s)
          problem == c.args.table_lower.s = "problem"
          url == IF problem
                 THEN c.self.instance \o "/api/now/table/problem/" \o item.sys_id
                 ELSE c.self.instance
                        \o TablePath(v, c.args.table_lower, c.args.custom)
                        \o "/" \o item.sys_id
          states == IF problem THEN prb_state ELSE inc_state
      IN  IF ~DictHas(states, st)
          THEN Finish([c EXCEPT !.self.url = url],
                      Raise("InvalidValue",
                            "\"state\" invalid. Choose one of the following:\n"
                                \o PyToStr(DictKeys(states))))
          ELSE LET data == IF problem THEN prb_data(st) ELSE inc_data(st)
               IN  SendData([c EXCEPT !.self.data = data], "PUT", url, data,
                            "item")

\* change_state_item as it would be had it keyed every outcome alike.
change_state_item_one_key(c, resp) ==
    [c EXCEPT !.self.response = resp,
              !.result = DictSet(@, "number",
                                 IF resp.status_code # 200 THEN ErrorCode(resp)
                                 ELSE "true"),
              !.idx = @ + 1]

change_state_item(c, resp) ==
    [c EXCEPT !.self.response = resp,
              !.result = DictSet(@, c.incident_list[c.idx].number,
                                 IF resp.status_code # 200 THEN ErrorCode(resp)
                                 ELSE "true"),
              !.idx = @ + 1]

\* -------------------------------------------------------- upload_file
RECURSIVE Basename(_)
\* ntpath.basename: what follows the last '/' or '\'.
Basename(path) ==
    IF \A i \in 1..Len(path) : SubSeq(path, i, i) \notin {"/", "\\"} THEN path
    ELSE Basename(SubSeq(path, 2, Len(path)))

upload_file_validate(v, a) ==
    IF v = "module"
    THEN FirstOf(Check(a.table, "str", TableMsg),
                 Check(a.file_name, "str", "\"filename\" format incorrect. String expected"))
    ELSE FirstOf(validate_format(a.table, "Table", "str", "String"),
                 validate_format(a.file_name, "File Name", "str", "String"))

upload_file(v, c, a) ==
    Enter(v, c, "upload_file", [a EXCEPT !.fields = PyStr("number,sys_id")],
          upload_file_validate(v, a))

\* open(file_name, 'rb').read(): the bytes of the local file (reading it is
\* taken to succeed).
FileData(file_name) == "<bytes of " \o file_name \o ">"

\* upload_file_loop as it would be had the headers of the upload been
\* assigned to self.headers, not to the local `headers`.
upload_file_loop_self_headers(v, c) ==
    IF c.idx > Len(c.incident_list) THEN Finish(c, Return("dict", c.result))
    ELSE SendData([c EXCEPT !.self.headers =
                            << <<"Content-Type", "*/*">>,
                               <<"Accept", "application/json">> >>],
                  "POST",
                  c.self.instance \o "/api/now/attachment/file?table_name="
                      \o PyToStr(c.args.table) \o "&table_sys_id="
                      \o c.incident_list[c.idx].sys_id \o "&file_name="
                      \o Basename(c.args.file_name.s),
                  FileData(c.args.file_name.s),
                  "item")

\* The top of `for item in incident_list`: the file is read and posted with
\* headers of its own (a local), or `return result`.
upload_file_loop(v, c) ==
    IF c.idx > Len(c.incident_list) THEN Finish(c, Return("dict", c.result))
    ELSE SendData(c, "POST",
                  c.self.instance \o "/api/now/attachment/file?table_name="
                      \o PyToStr(c.args.table) \o "&table_sys_id="
                      \o c.incident_list[c.idx].sys_id \o "&file_name="
                      \o Basename(c.args.file_name.s),
                  FileData(c.args.file_name.s),
                  "item")

\* The answer goes to the local `response`; the status that is tested is
\* that of self.response.
upload_file_item(c, resp) ==
    [c EXCEPT !.result = DictSet(@, c.incident_list[c.idx].number,
                                 IF c.self.response.status_code # 200
                                 THEN ErrorCode(c.self.response)
                                 ELSE "true"),
              !.idx = @ + 1]

\* ----------------------------------------------------------- get_file
\* str.endswith
EndsWith(text, suffix) ==
    \/ Len(suffix) = 0
    \/ /\ Len(suffix) <= Len(text)
       /\ SubSeq(text, Len(text) - Len(suffix) + 1, Len(text)) = suffix

AttachmentQuery ==
    "/api/now/attachment?sysparm_limit=50&sysparm_query=sysparm_query=active=true^table_sys_id="

get_file_validate(v, a) ==
    IF v = "module"
    THEN FirstOf(IF a.type = PyStr("") THEN Okay
                 ELSE Check(a.type, "str", "\"type\" format incorrect. String expected"),
                 Check(a.table, "str", TableMsg))
    ELSE FirstOf(validate_format(a.table, "Table", "str", "String"),
                 validate_format(a.type, "Type", "str", "String"))

get_file(v, c, a) ==
    Enter(v, c, "get_file", [a EXCEPT !.fields = PyStr("number,sys_id")],
          get_file_validate(v, a))

\* get_file_loop as it would be had it returned the mapping in every case.
get_file_loop_mapping(c) ==
    IF c.idx > Len(c.incident_list) THEN Finish(c, Return("dict", c.result))
    ELSE Send(c, "GET",
              c.self.instance \o AttachmentQuery \o c.incident_list[c.idx].sys_id,
              "listing")

\* The top of `for item in incident_list`: the listing request for the next
\* record, or the end of the method.
get_file_loop(c) ==
    IF c.idx > Len(c.incident_list)
    THEN IF c.file_found_all THEN Finish(c, Return("dict", c.result))
         ELSE Finish(c, not_found(c.self))
    ELSE Send(c, "GET",
              c.self.instance \o AttachmentQuery \o c.incident_list[c.idx].sys_id,
              "listing")

RECURSIVE get_file_attachments(_, _)
\* `for item_attach in attachment_data['result']` from position i: every
\* attachment whose name ends with type is fetched from its download_link
\* (the answer is written to the local file and not examined).
get_file_attachments(c, i) ==
    IF i > Len(c.attachment_data) THEN c
    ELSE LET item_attach == c.attachment_data[i] IN
         IF EndsWith(item_attach.file_name, c.args.type.s)
         THEN get_file_attachments(
                  [c EXCEPT !.file_found = TRUE, !.file_found_all = TRUE,
                            !.requests = Append(@, Request("GET", item_attach.download_link)),
                            !.bodies = Append(@, "")],
                  i + 1)
         ELSE get_file_attachments(c, i + 1)

\* The loop body from the listing's answer on.  The body of a failure has no
\* 'result': attachment_data['result'] raises KeyError.
get_file_listing(c, resp) ==
    LET number == c.incident_list[c.idx].number
        c1 == [c EXCEPT !.self.response = resp,
                        !.result = DictSet(@, number,
                                           IF resp.status_code # 200
                                           THEN ErrorCode(resp) ELSE "true")]
    IN  IF resp.status_code # 200 THEN Finish(c1, Raise("KeyError", "'result'"))
        ELSE IF Len(resp.result) = 0
        THEN get_file_loop([c1 EXCEPT !.attachment_data = resp.result,
                                      !.result = DictSet(@, number, "false"),
                                      !.idx = @ + 1])
        ELSE LET c2 == get_file_attachments(
                           [c1 EXCEPT !.attachment_data = resp.result,
                                      !.result = DictSet(@, number, "true"),
                                      !.file_found = FALSE], 1)
             IN  get_file_loop(
                     [c2 EXCEPT !.result = IF c2.file_found
                                           THEN DictSet(@, number, "true") ELSE @,
                                !.idx = @ + 1])

\* -------------------------------------------------------- delete_file
delete_file_validate(v, a) ==
    IF v = "module"
    THEN FirstOf(Check(a.table, "str", TableMsg),
                 Check(a.file_name, "str", "\"filename\" format incorrect. String expected"))
    ELSE FirstOf(validate_format(a.table, "Table", "str", "String"),
                 validate_format(a.file_name, "File Name", "str", "String"))

delete_file(v, c, a) ==
    Enter(v, c, "delete_file", [a EXCEPT !.fields = PyStr("number,sys_id")],
          delete_file_validate(v, a))

delete_file_loop(c) ==
    IF c.idx > Len(c.incident_list)
    THEN IF c.file_found_all THEN Finish(c, Return("dict", c.result))
         ELSE Finish(c, IF c.self.empty_error
                        THEN Raise("EmptyResult", "File not found")
                        ELSE Return("false", <<>>))
    ELSE Send(c, "GET",
              c.self.instance \o AttachmentQuery \o c.incident_list[c.idx].sys_id,
              "listing")

RECURSIVE delete_file_attachments_suffix(_)
\* delete_file_attachments as it would be had it matched names by suffix.
delete_file_attachments_suffix(c) ==
    IF c.aidx > Len(c.attachment_data)
    THEN delete_file_loop(
             [c EXCEPT !.result = IF ~c.file_found
                                  THEN DictSet(@, c.incident_list[c.idx].number, "false")
                                  ELSE @,
                       !.idx = @ + 1])
    ELSE IF EndsWith(c.attachment_data[c.aidx].file_name, c.args.file_name.s)
    THEN Send([c EXCEPT !.file_found = TRUE, !.file_found_all = TRUE],
              "DELETE",
              c.self.instance \o "/api/now/attachment/"
                  \o c.attachment_data[c.aidx].sys_id,
              "attachment")
    ELSE delete_file_attachments_suffix([c EXCEPT !.aidx = @ + 1])

RECURSIVE delete_file_attachments(_)
\* `for item_attach in attachment_data['result']` from position c.aidx: the
\* DELETE of the next attachment whose name equals filename, or the end of
\* the record's loop body.
delete_file_attachments(c) ==
    IF c.aidx > Len(c.attachment_data)
    THEN delete_file_loop(
             [c EXCEPT !.result = IF ~c.file_found
                                  THEN DictSet(@, c.incident_list[c.idx].number, "false")
                                  ELSE @,
                       !.idx = @ + 1])
    ELSE IF c.attachment_data[c.aidx].file_name = c.args.file_name.s
    THEN Send([c EXCEPT !.file_found = TRUE, !.file_found_all = TRUE],
              "DELETE",
              c.self.instance \o "/api/now/attachment/"
                  \o c.attachment_data[c.aidx].sys_id,
              "attachment")
    ELSE delete_file_attachments([c EXCEPT !.aidx = @ + 1])

delete_file_listing(c, resp) ==
    LET number == c.incident_list[c.idx].number
        c1 == [c EXCEPT !.self.response = resp,
                        !.result = DictSet(@, number,
                                           IF resp.status_code # 200
                                           THEN ErrorCode(resp) ELSE "true")]
    IN  IF resp.status_code # 200 THEN Finish(c1, Raise("KeyError", "'result'"))
        ELSE IF Len(resp.result) = 0
        THEN delete_file_loop([c1 EXCEPT !.attachment_data = resp.result,
                                         !.result = DictSet(@, number, "false"),
                                         !.idx = @ + 1])
        ELSE delete_file_attachments(
                 [c1 EXCEPT !.attachment_data = resp.result,
                            !.result = DictSet(@, number, "true"),
                            !.file_found = FALSE,
                            !.aidx = 1])

\* The answer to an attachment's DELETE.
delete_file_deleted(c, resp) ==
    delete_file_attachments(
        [c EXCEPT !.self.response = resp,
                  !.result = DictSet(@, c.incident_list[c.idx].number,
                                     IF resp.status_code # 204
                                     THEN ErrorCode(resp) ELSE "true"),
                  !.aidx = @ + 1])

\* ------------------------------------------------------------- create
create_validate(v, a) ==
    IF v = "module"
    THEN FirstOf(Check(a.data, "dict", "\"data\" format incorrect. Dictionary expected"),
                 Check(a.table, "str", TableMsg))
    ELSE FirstOf(validate_format(a.table, "Table", "str", "String"),
                 validate_format(a.data, "Data", "dict", "Dictionary"))

\* create up to its POST (data=json.dumps(data)).
create(v, c, a) ==
    LET bad == create_validate(v, a)
        c1 == [c EXCEPT !.args = a]
    IN  IF bad.exc # "none" THEN Finish(c1, Raise(bad.exc, bad.msg))
        ELSE SendData(c1, "POST",
                      c.self.instance \o TablePath(v, a.table, a.custom),
                      a.data.s, "create")

\* create_end as it would be had it taken every 2xx status for success.
create_end_any2xx(c, resp) ==
    LET c1 == [c EXCEPT !.self.response = resp]
    IN  IF resp.status_code \notin {200, 201}
        THEN Finish(c1, Raise("ResponseError", ErrorDetailsObject(resp)))
        ELSE Finish(c1, Return("json", resp))

\* create from the answer on: it returns self.response.json().
create_end(c, resp) ==
    LET c1 == [c EXCEPT !.self.response = resp]
    IN  IF resp.status_code # 201
        THEN Finish(c1, Raise("ResponseError", ErrorDetailsObject(resp)))
        ELSE Finish(c1, Return("json", resp))

\* --------------------------------------------------------- send_email
\* `if x: <check>`
IfSet(x, check) == IF Truthy(x) THEN check ELSE Okay

send_email_validate(v, a) ==
    IF v = "module"
    THEN IF PyToStr(a.to) = ""
         THEN [exc |-> "InvalidFormat",
               msg |-> "\nMandatory parameter \"to\" missing"]
         ELSE IF \/ PyToStr(a.sys_id) # "" /\ PyToStr(a.table) = ""
                 \/ PyToStr(a.sys_id) = "" /\ PyToStr(a.table) # ""
         THEN [exc |-> "InvalidFormat",
               msg |-> "\nBoth parameters \"table\" and \"sysId\" are required"]
         ELSE FirstOf(IfSet(a.cc, Check(a.cc, "str", "\"cc\" format incorrect. String expected")),
              FirstOf(IfSet(a.bcc, Check(a.bcc, "str", "\"bcc\" format incorrect. String expected")),
              FirstOf(IfSet(a.table, Check(a.table, "str", TableMsg)),
                      IfSet(a.sys_id, Check(a.sys_id, "str", "\"sysId\" format incorrect. String expected")))))
    ELSE FirstOf(validate_format(a.to, "Mandatory parameter \"to\"", "str", "String"),
         FirstOf(validate_format(a.subject, "Subject", "str", "String"),
         FirstOf(validate_format(a.message, "Message", "str", "String"),
         FirstOf(IfSet(a.cc, validate_format(a.cc, "CC", "str", "String")),
         FirstOf(IfSet(a.bcc, validate_format(a.bcc, "BCC", "str", "String")),
         FirstOf(IfSet(a.table, validate_format(a.table, "Table", "str", "String")),
                 IfSet(a.sys_id, validate_format(a.sys_id, "Sys_id", "str", "String"))))))))

\* self.data of send_email.
email_data(a) ==
    "{\"to\": [\"" \o PyToStr(a.to)
        \o "\"], \"cc\": [\"" \o PyToStr(a.cc)
        \o "\"], \"bcc\": [\"" \o PyToStr(a.bcc)
        \o "\"], \"subject\": \"" \o PyToStr(a.subject)
        \o "\", \"text\": \"" \o PyToStr(a.message)
        \o "\", \"table_name\": \"" \o PyToStr(a.table)
        \o "\", \"table_record_id\": \"" \o PyToStr(a.sys_id)
        \o "\"}"

\* send_email up to its POST.
send_email(v, c, a) ==
    LET bad == send_email_validate(v, a)
        c1 == [c EXCEPT !.args = a]
    IN  IF bad.exc # "none" THEN Finish(c1, Raise(bad.exc, bad.msg))
        ELSE SendData([c1 EXCEPT !.self.data = email_data(a)], "POST",
                      c.self.instance \o "/api/now/v1/email",
                      email_data(a), "send_email")

\* send_email from the answer on: it returns json()['result'].
send_email_end(c, resp) ==
    LET c1 == [c EXCEPT !.self.response = resp]
    IN  IF resp.status_code # 200
        THEN Finish(c1, Raise("ResponseError", ErrorDetailsObject(resp)))
        ELSE Finish(c1, Return("result", resp.result[1]))

\* --------------------------------------------------------- read_email
read_email_validate(v, a) ==
    IF v = "module"
    THEN Check(a.sys_id, "str", "\"filename\" format incorrect. String expected")
    ELSE validate_format(a.sys_id, "sys_id", "str", "String")

\* read_email up to its GET.
read_email(v, c, a) ==
    LET bad == read_email_validate(v, a)
        c1 == [c EXCEPT !.args = a]
    IN  IF bad.exc # "none" THEN Finish(c1, Raise(bad.exc, bad.msg))
        ELSE Send(c1, "GET",
                  c.self.instance \o "/api/now/v1/email/" \o PyToStr(a.sys_id),
                  "read_email")

\* read_email from the answer on.
read_email_end(c, resp) ==
    LET c1 == [c EXCEPT !.self.response = resp]
    IN  IF resp.status_code # 200
        THEN Finish(c1, Raise("ResponseError", ErrorDetailsObject(resp)))
        ELSE Finish(c1, Return("result", resp.result[1]))

\* ------------------------------------------------- the arguments tried
S(text) == PyStr(text)
OperatorSpellings ==
    { operators[i][1] : i \in 1..Len(operators) }
        \cup {"IS", "Is Not", "STARTS WITH", "Contains"}
        \cup {"equals", "=", "isnot", ""}
FieldNames == {"number", "active"}
FieldValues == {"INC0010001", ""}

\* The flat form: [field, operator, value] and [field, operator].
FlatLists ==
    { PyList(<<S(f), S(o), S(x)>>) :
          <<f, o, x>> \in FieldNames \X OperatorSpellings \X FieldValues }
    \cup { PyList(<<S(f), S(o)>>) : <<f, o>> \in FieldNames \X OperatorSpellings }

\* The nested form: lists of 1..MaxTriples triples.
Triples ==
    { PyList(<<S("number"), S("is"), S("INC0010001")>>),
      PyList(<<S("active"), S("Is Empty")>>),
      PyList(<<S("state"), S("IS NOT"), S("6")>>),
      PyList(<<S("number"), S("equals"), S("INC0010001")>>) }

RECURSIVE Tuples(_, _)
\* The sequences of exactly n elements of E.
Tuples(E, n) ==
    IF n = 0 THEN {<<>>}
    ELSE { Append(q, x) : <<q, x>> \in Tuples(E, n - 1) \X E }

NestedLists ==
    UNION { { PyList(q) : q \in Tuples(Triples, n) } : n \in 1..MaxTriples }

\* Lists that mix the forms: at least one triple and at least one string.
MixedLists ==
    LET E == { PyList(<<S("number"), S("is"), S("INC0010001")>>),
               S("number"), S("is") }
    IN  UNION { { PyList(q) : q \in
                    { q \in Tuples(E, n) :
                        /\ \E i \in 1..n : q[i].t = "list"
                        /\ \E i \in 1..n : q[i].t # "list" } } : n \in 2..MaxMixed }

\* Other shapes a caller can pass.
OddLists ==
    { PyList(<<>>), S(""), S("number"), PyTuple(<<>>),
      PyTuple(<<S("number"), S("is"), S("INC0010001")>>),
      PyTuple(<<PyList(<<S("number"), S("is"), S("INC0010001")>>)>>),
      PyList(<<S("number")>>),
      PyList(<<PyList(<<S("number")>>)>>),
      PyList(<<PyList(<<>>)>>),
      PyList(<<S("number"), S("is"), PyTuple(<<S("a"), S("b")>>)>>),
      PyInt("7") }

SearchLists == FlatLists \cup NestedLists \cup MixedLists \cup OddLists

\* The search lists the batch methods are called with.
BatchLists ==
    { PyList(<<S("number"), S("is"), S("INC0010001")>>),
      PyList(<<S("number"), S("equals"), S("INC0010001")>>) }

\* (table, custom) pairs: a table name, a value that is no str, and for the
\* package client a custom path.
TableArgs(v) ==
    { <<S("incident"), FALSE>>, <<S("problem"), FALSE>>, <<PyInt("7"), FALSE>> }
        \cup (IF v = "package" THEN { <<S("/api/x_app/u_task"), TRUE>> } ELSE {})

\* The same for the attachment methods.
FileTableArgs(v) == TableArgs(v) \ { <<S("problem"), FALSE>> }

\* The same for change_state: also a table name in capitals, and for the
\* package client custom paths that have capitals or are 'problem'.
StateTableArgs(v) ==
    TableArgs(v) \cup { <<S("Problem"), FALSE>> }
        \cup (IF v = "package"
              THEN { <<S("/api/x_app/U_Task"), TRUE>>, <<S("problem"), TRUE>> }
              ELSE {})

\* The state names change_state is called with: every name of both tables,
\* names in capitals, a name of neither table, a value that is no str.
StateArgs ==
    { S(inc_state[i][1]) : i \in 1..Len(inc_state) }
        \cup { S(prb_state[i][1]) : i \in 1..Len(prb_state) }
        \cup { S("Resolved"), S("Known Error"), S("bogus"), PyInt("7") }

\* The e-mail arguments: (to, table, sys_id, cc, subject).
EmailArgs ==
    {S(""), S("a@x.org")} \X {S(""), S("incident"), PyInt("7")}
        \X {S(""), S("a1"), PyInt("7")} \X {S(""), S("c@x.org"), PyInt("7")}
        \X {S("Hi"), PyInt("7")}

\* The attachments there are, in the order a listing gives them.
Attachments ==
    << [sys_id |-> "f1", file_name |-> "report.txt",
        download_link |-> "https://dev.service-now.com/api/now/attachment/f1/file"],
       [sys_id |-> "f2", file_name |-> "notes.log",
        download_link |-> "https://dev.service-now.com/api/now/attachment/f2/file"],
       [sys_id |-> "f3", file_name |-> "old_report.txt",
        download_link |-> "https://dev.service-now.com/api/now/attachment/f3/file"] >>

RECURSIVE Pick(_, _, _)
\* The elements of q at the positions in P, in q's order, from position i on.
Pick(q, P, i) ==
    IF i > Len(q) THEN <<>>
    ELSE (IF i \in P THEN <<q[i]>> ELSE <<>>) \o Pick(q, P, i + 1)

\* A record's attachments: any MaxAttach or fewer of them.
ListingAnswers ==
    { Success(200, Pick(Attachments, P, 1)) :
          P \in { P \in SUBSET (1..Len(Attachments)) : Cardinality(P) <= MaxAttach } }
        \cup Errors

Args(t, sl) ==
    [NoArgs EXCEPT !.table = t[1], !.custom = t[2], !.search_list = sl,
                   !.search_list_now = sl]

\* ------------------------------------------------------------ actions
\* The transient fields of the two client instances of the concurrent
\* setting, and a thread that runs nothing.
NoClients == [k \in 1..2 |-> [url |-> "", response |-> NoResponse]]
NoThread ==
    [client |-> 1, op |-> "none", incident_list |-> <<>>, idx |-> 0,
     pc |-> "none", status_code |-> 0, result |-> EmptyDict,
     requests |-> <<>>, answers |-> <<>>, ret |-> NoRet]

\* One client, constructed, on which nothing has been called.
InitCall ==
    /\ variant \in Variants
    /\ \E e \in BOOLEAN : self = init("dev", "admin", "secret", e)
    /\ pc = "idle"
    /\ op = "none"
    /\ args = NoArgs
    /\ incident_list = <<>>
    /\ idx = 0
    /\ result = EmptyDict
    /\ attachment_data = <<>>
    /\ aidx = 0
    /\ file_found = FALSE
    /\ file_found_all = FALSE
    /\ ret = NoRet
    /\ requests = <<>>
    /\ bodies = <<>>
    /\ answers = <<>>

\* The sequential setting: one caller, one call at a time.
Init ==
    /\ InitCall
    /\ clients = NoClients
    /\ threads = [t \in 1..2 |-> NoThread]

\* A method is called on the idle client.
Call(o, c) == pc = "idle" /\ op' = o /\ variant' = variant /\ Become(c)

search ==
    /\ pc = "idle"
    /\ \E t \in TableArgs(variant), sl \in SearchLists,
       f \in {S(""), S("number,sys_id"), PyInt("7")} :
        /\ t[1] = S("incident") \/ sl \in BatchLists
        /\ f = S("") \/ sl \in BatchLists
        /\ Call("search", CallSearch(variant, Cur, "search",
                                     [Args(t, sl) EXCEPT !.fields = f]))

Update ==
    /\ pc = "idle"
    /\ \E t \in TableArgs(variant), sl \in BatchLists,
       d \in {PyDict("{\"state\": \"2\"}"), S("state")} :
        Call("update", update(variant, Cur, [Args(t, sl) EXCEPT !.data = d]))

Delete ==
    /\ pc = "idle"
    /\ \E t \in TableArgs(variant), sl \in BatchLists :
        Call("delete", delete(variant, Cur, Args(t, sl)))

ChangeState ==
    /\ pc = "idle"
    /\ \E t \in StateTableArgs(variant), sl \in BatchLists, st \in StateArgs :
        Call("change_state",
             change_state(variant, Cur, [Args(t, sl) EXCEPT !.state = st]))

GetFile ==
    /\ pc = "idle"
    /\ \E t \in FileTableArgs(variant), sl \in BatchLists,
       ty \in {S(""), S(".txt"), S(".pdf"), PyInt("7")} :
        Call("get_file", get_file(variant, Cur, [Args(t, sl) EXCEPT !.type = ty]))

UploadFile ==
    /\ pc = "idle"
    /\ \E t \in FileTableArgs(variant), sl \in BatchLists,
       fn \in {S("report.txt"), S("docs/report.txt"), PyInt("7")} :
        Call("upload_file",
             upload_file(variant, Cur, [Args(t, sl) EXCEPT !.file_name = fn]))

DeleteFile ==
    /\ pc = "idle"
    /\ \E t \in FileTableArgs(variant), sl \in BatchLists,
       fn \in {S("report.txt"), S("docs/report.txt"), PyInt("7")} :
        Call("delete_file",
             delete_file(variant, Cur, [Args(t, sl) EXCEPT !.file_name = fn]))

Create ==
    /\ pc = "idle"
    /\ \E t \in TableArgs(variant),
       d \in {PyDict("{\"short_description\": \"x\"}"), S("state")} :
        Call("create",
             create(variant, Cur,
                    [NoArgs EXCEPT !.table = t[1], !.custom = t[2], !.data = d]))

SendEmail ==
    /\ pc = "idle"
    /\ \E e \in EmailArgs :
        Call("send_email",
             send_email(variant, Cur,
                        [NoArgs EXCEPT !.to = e[1], !.table = e[2],
                                       !.sys_id = e[3], !.cc = e[4],
                                       !.subject = e[5],
                                       !.message = S("Body")]))

ReadEmail ==
    /\ pc = "idle"
    /\ \E i \in {S("e1"), S(""), PyInt("7")} :
        Call("read_email",
             read_email(variant, Cur, [NoArgs EXCEPT !.sys_id = i]))

\* The caller has the list object it passed to a search that found nothing
\* or was refused, and calls search with it once more, on the same client
\* and with the same table and fields.
SearchAgain ==
    /\ pc = "done"
    /\ op = "search"
    /\ IF Len(answers) = 0 THEN TRUE ELSE answers[1] = Success(200, <<>>)
    /\ op' = "search_again"
    /\ variant' = variant
    /\ Become(CallSearch(variant, [Cur EXCEPT !.ret = NoRet], "search",
                         [args EXCEPT !.search_list = args.search_list_now]))

\* The for-loop of method o.
Loop(v, o, c) ==
    CASE o = "update" -> update_loop(v, c)
      [] o = "delete" -> delete_loop(v, c)
      [] o = "change_state" -> change_state_loop(v, c)
      [] o = "upload_file" -> upload_file_loop(v, c)
      [] o = "get_file" -> get_file_loop(c)
      [] OTHER -> delete_file_loop(c)

\* The code from the answer to the search GET up to the next exchange:
\* the rest of search, then for a batch method the empty-result test and the
\* first pass of its loop.
AfterSearch(v, o, c, resp) ==
    LET c1 == [c EXCEPT !.self.response = resp]
        r == search_end(c1.self, resp)
    IN  IF o \in {"search", "search_again"} \/ r.kind = "raise"
        THEN Finish(c1, r)
        ELSE IF r.kind = "false" THEN Finish(c1, not_found(c1.self))
        ELSE Loop(v, o, [c1 EXCEPT !.incident_list = r.val, !.idx = 1,
                                   !.result = EmptyDict,
                                   !.file_found_all = FALSE])

SearchAnswer ==
    /\ pc = "search"
    /\ \E resp \in SearchAnswers : Become(AfterSearch(variant, op, Heard(Cur, resp), resp))
    /\ UNCHANGED <<variant, op>>

\* The answers to the per-record request of each method.
ItemAnswers(o) ==
    Errors \cup { Success(IF o = "delete" THEN 204
                          ELSE IF o = "upload_file" THEN 201 ELSE 200, <<>>) }

Item(o, c, resp) ==
    CASE o = "update" -> update_item(c, resp)
      [] o = "delete" -> delete_item(c, resp)
      [] o = "change_state" -> change_state_item(c, resp)
      [] OTHER -> upload_file_item(c, resp)

ItemAnswer ==
    /\ pc = "item"
    /\ \E resp \in ItemAnswers(op) :
           Become(Loop(variant, op, Item(op, Heard(Cur, resp), resp)))
    /\ UNCHANGED <<variant, op>>

ListingAnswer ==
    /\ pc = "listing"
    /\ \E resp \in ListingAnswers :
           Become(IF op = "get_file" THEN get_file_listing(Heard(Cur, resp), resp)
                  ELSE delete_file_listing(Heard(Cur, resp), resp))
    /\ UNCHANGED <<variant, op>>

AttachmentAnswer ==
    /\ pc = "attachment"
    /\ \E resp \in Errors \cup {Success(204, <<>>)} :
           Become(delete_file_deleted(Heard(Cur, resp), resp))
    /\ UNCHANGED <<variant, op>>

\* The answer to the one request of create, send_email or read_email.
ObjectAnswer ==
    /\ pc \in {"create", "send_email", "read_email"}
    /\ \E resp \in ObjectAnswers :
           Become(CASE pc = "create" -> create_end(Heard(Cur, resp), resp)
                    [] pc = "send_email" -> send_email_end(Heard(Cur, resp), resp)
                    [] OTHER -> read_email_end(Heard(Cur, resp), resp))
    /\ UNCHANGED <<variant, op>>

\* The caller is done with the call and constructs the client anew.
Construct ==
    /\ pc = "done"
    /\ variant' = variant
    /\ self' = init("dev", "admin", "secret", self.empty_error)
    /\ pc' = "idle"
    /\ op' = "none"
    /\ args' = NoArgs
    /\ incident_list' = <<>>
    /\ idx' = 0
    /\ result' = EmptyDict
    /\ attachment_data' = <<>>
    /\ aidx' = 0
    /\ file_found' = FALSE
    /\ file_found_all' = FALSE
    /\ ret' = NoRet
    /\ requests' = <<>>
    /\ bodies' = <<>>
    /\ answers' = <<>>
    /\ UNCHANGED <<clients, threads>>

Next ==
    \/ search
    \/ Update
    \/ Delete
    \/ ChangeState
    \/ GetFile
    \/ UploadFile
    \/ DeleteFile
    \/ Create
    \/ SendEmail
    \/ ReadEmail
    \/ SearchAgain
    \/ SearchAnswer
    \/ ItemAnswer
    \/ ListingAnswer
    \/ AttachmentAnswer
    \/ ObjectAnswer
    \/ Construct

Spec == Init /\ [][Next]_vars

\* ------------------------------------- two invocations at the same time
\* Two threads each run the loop of an update or a delete whose search has
\* returned.  A thread can be preempted between any two accesses to a field
\* of self, and is while it waits for an answer, so every access is a step.
MaxThreadRecords == 2   \* most records the first invocation's search matched

\* The records the search of each invocation returned.
FirstMatched(n) ==
    SubSeq(<< [sys_id |-> "a1", number |-> "INC1"],
              [sys_id |-> "b2", number |-> "INC2"],
              [sys_id |-> "c3", number |-> "INC3"] >>, 1, n)
OtherMatched == << [sys_id |-> "d4", number |-> "INC4"] >>

\* The thread of an invocation of method o on client instance cl, at the
\* top of `for item in incident_list`.
ThreadStart(cl, o, list) ==
    [NoThread EXCEPT !.client = cl, !.op = o, !.incident_list = list,
                     !.idx = 1, !.pc = "top"]

\* The first invocation is on instance 1, the second on the same instance
\* or on instance 2; both instances were constructed alike (empty_error,
\* which the loops do not read, is left at its default).
InitConc ==
    /\ InitCall
    /\ self.empty_error
    /\ clients = NoClients
    /\ \E cl \in 1..2, o1 \in {"update", "delete"}, o2 \in {"update", "delete"},
          n \in 1..MaxThreadRecords :
           threads = [t \in 1..2 |->
                         IF t = 1 THEN ThreadStart(1, o1, FirstMatched(n))
                         ELSE ThreadStart(cl, o2, OtherMatched)]

\* Fields as it would be had url and response been attributes of the class,
\* shared by its instances.
Fields_of_class(cl) == 1

\* self.url and self.response are attributes of the instance: the fields
\* that instance cl reads and writes are its own.
Fields(cl) == cl

\* The variables of the one-caller setting.
callvars ==
    <<variant, self, pc, op, args, incident_list, idx, result,
      attachment_data, aidx, file_found, file_found_all, ret, requests,
      bodies, answers>>

\* The URL, the verb and the success status of a thread's per-record request.
thread_url(th) ==
    self.instance \o TablePath(variant, PyStr("incident"), FALSE) \o "/"
        \o th.incident_list[th.idx].sys_id
thread_verb(th) == IF th.op = "update" THEN update_verb(variant) ELSE "DELETE"
thread_success(th) == IF th.op = "update" THEN 200 ELSE 204

\* self.url = self.instance + '/api/now/table/' + str(table) + '/' + ...
SetUrl(t) ==
    /\ threads[t].pc = "top"
    /\ threads[t].idx <= Len(threads[t].incident_list)
    /\ clients' = [clients EXCEPT ![Fields(threads[t].client)].url
                                      = thread_url(threads[t])]
    /\ threads' = [threads EXCEPT ![t].pc = "send"]
    /\ UNCHANGED callvars

\* The loop is exhausted: return result.
ReturnResult(t) ==
    /\ threads[t].pc = "top"
    /\ threads[t].idx > Len(threads[t].incident_list)
    /\ threads' = [threads EXCEPT ![t].pc = "done",
                                  ![t].ret = Return("dict", threads[t].result)]
    /\ UNCHANGED <<clients, callvars>>

\* requests.put(url=self.url, ...) / requests.delete(url=self.url, ...): the
\* argument is read from self.url and the request goes out.
SendRequest(t) ==
    /\ threads[t].pc = "send"
    /\ threads' = [threads EXCEPT
                       ![t].requests =
                           Append(@, Request(thread_verb(threads[t]),
                                             clients[Fields(threads[t].client)].url)),
                       ![t].pc = "wait"]
    /\ UNCHANGED <<clients, callvars>>

\* self.response = <the answer to the thread's request>
ReceiveAnswer(t) ==
    /\ threads[t].pc = "wait"
    /\ \E resp \in ItemAnswers(threads[t].op) :
        /\ clients' = [clients EXCEPT ![Fields(threads[t].client)].response = resp]
        /\ threads' = [threads EXCEPT ![t].answers = Append(@, resp),
                                      ![t].pc = "test"]
    /\ UNCHANGED callvars

\* if self.response.status_code != 200 (204): ... else: result[...] = 'true'
TestStatus(t) ==
    /\ threads[t].pc = "test"
    /\ threads' =
           IF clients[Fields(threads[t].client)].response.status_code
                  # thread_success(threads[t])
           THEN [threads EXCEPT ![t].pc = "status"]
           ELSE [threads EXCEPT
                     ![t].result =
                         DictSet(@, threads[t].incident_list[threads[t].idx].sys_id,
                                 "true"),
                     ![t].idx = @ + 1,
                     ![t].pc = "top"]
    /\ UNCHANGED <<clients, callvars>>

\* 'Error Code ' + str(self.response.status_code): the second reading of
\* the status.
ReadStatus(t) ==
    /\ threads[t].pc = "status"
    /\ threads' = [threads EXCEPT
                       ![t].status_code =
                           clients[Fields(threads[t].client)].response.status_code,
                       ![t].pc = "detail"]
    /\ UNCHANGED <<clients, callvars>>

\* ... + ', ' + str(self.response.json()['error']): a body without 'error'
\* raises KeyError; otherwise the descriptor is stored for the record.
ReadDetail(t) ==
    /\ threads[t].pc = "detail"
    /\ threads' =
           IF clients[Fields(threads[t].client)].response.error = ""
           THEN [threads EXCEPT ![t].pc = "done",
                                ![t].ret = Raise("KeyError", "'error'")]
           ELSE [threads EXCEPT
                     ![t].result =
                         DictSet(@, threads[t].incident_list[threads[t].idx].sys_id,
                                 "Error Code " \o IntToStr(threads[t].status_code)
                                     \o ", "
                                     \o clients[Fields(threads[t].client)].response.error),
                     ![t].idx = @ + 1,
                     ![t].pc = "top"]
    /\ UNCHANGED <<clients, callvars>>

NextConc ==
    \E t \in 1..2 :
        \/ SetUrl(t)
        \/ SendRequest(t)
        \/ ReceiveAnswer(t)
        \/ TestStatus(t)
        \/ ReadStatus(t)
        \/ ReadDetail(t)
        \/ ReturnResult(t)

SpecConc == InitConc /\ [][NextConc]_vars

\* ====================================================== the properties
\* The operator vocabulary as the specification's data model gives it.
Vocabulary ==
    ("is" :> "=") @@ ("is not" :> "!=") @@ ("is one of" :> "IN")
        @@ ("starts with" :> "STARTSWITH") @@ ("ends with" :> "ENDSWITH")
        @@ ("contains" :> "LIKE") @@ ("does not contain" :> "NOT LIKE")
        @@ ("less than or is" :> "<=") @@ ("greater than or is" :> ">=")
        @@ ("same as" :> "SAMEAS") @@ ("is empty" :> "ISEMPTY")
        @@ ("is not empty" :> "ISNOTEMPTY") @@ ("is anything" :> "ANYTHING")
        @@ ("is empty string" :> "EMPTYSTRING")

ValidNamesMessage ==
    "Operator value invalid. Choose one of the following:\n('is', 'is not', 'is one of', 'starts with', 'ends with', 'contains', 'does not contain', 'less than or is', 'greater than or is', 'same as', 'is empty', 'is not empty', 'is anything', 'is empty string')"

\* [field, operator] or [field, operator, value], all strings.
IsTriple(x) ==
    /\ x.t = "list"
    /\ Len(x.items) \in {2, 3}
    /\ \A i \in 1..Len(x.items) : x.items[i].t = "str"
IsFullTriple(x) == IsTriple(x) /\ Len(x.items) = 3
ValidOperator(x) == Lower(x.items[2].s) \in DOMAIN Vocabulary
\* A non-empty list of triples.
IsNested(x) ==
    /\ x.t = "list"
    /\ Len(x.items) >= 1
    /\ \A i \in 1..Len(x.items) : IsTriple(x.items[i])

\* '^' + field + token + value of a triple, a missing value being ''.
Clause(x) ==
    "^" \o x.items[1].s \o Vocabulary[Lower(x.items[2].s)]
        \o (IF Len(x.items) = 3 THEN x.items[3].s ELSE "")
RECURSIVE Clauses(_, _)
Clauses(xs, i) == IF i > Len(xs) THEN "" ELSE Clause(xs[i]) \o Clauses(xs, i + 1)

\* The triple with '' for a missing value.
Filled(x) == IF Len(x.items) = 2 THEN PyList(Append(x.items, PyStr(""))) ELSE x
FilledAll(x) == PyList([i \in 1..Len(x.items) |-> Filled(x.items[i])])

\* search has been called with a table and fields that are strings.
SearchCalled ==
    /\ op = "search"
    /\ pc # "idle"
    /\ args.table.t = "str"
    /\ args.fields.t = "str"

\* The URL of a search whose query fragment is fragment.
SearchUrl(fragment) ==
    self.instance
        \o (IF args.custom THEN args.table.s ELSE "/api/now/table/" \o args.table.s)
        \o "?sysparm_limit=50&sysparm_query=sysparm_query=" \o fragment
        \o "&sysparm_fields=" \o args.fields.s

\* The call's one request is the GET of that URL.
GetIssued(fragment) == requests = <<Request("GET", SearchUrl(fragment))>>

\* The call has ended with exception exc and has issued no request.
Refused(exc) ==
    /\ pc = "done"
    /\ ret.kind = "raise"
    /\ ret.exc = exc
    /\ requests = <<>>

\* C1: for a flat triple [f, op, v] whose operator, in lower case, is in the
\* vocabulary, search issues its GET with the query fragment '^' + f + token
\* + v and nothing else in the query part.
C1_FlatTripleCompiled ==
    (/\ SearchCalled
     /\ IsFullTriple(args.search_list)
     /\ ValidOperator(args.search_list))
    => GetIssued(Clause(args.search_list))

C1_Witness ==
    /\ op = "search"
    /\ args.search_list = PyList(<<S("number"), S("Is Not"), S("INC0010001")>>)
    /\ requests # <<>>
    /\ requests[1].url = "https://dev.service-now.com/api/now/table/incident?sysparm_limit=50&sysparm_query=sysparm_query=^number!=INC0010001&sysparm_fields="

\* C2: for a nested list of N >= 1 valid triples the query fragment is the
\* concatenation, in input order, of the N clauses '^' + field + token +
\* value: none added, none repeated.
C2_NestedListCompiled ==
    (/\ SearchCalled
     /\ IsNested(args.search_list)
     /\ \A i \in 1..Len(args.search_list.items) :
            /\ IsFullTriple(args.search_list.items[i])
            /\ ValidOperator(args.search_list.items[i]))
    => GetIssued(Clauses(args.search_list.items, 1))

C2_Witness ==
    /\ op = "search"
    /\ args.search_list =
           PyList(<< PyList(<<S("state"), S("IS NOT"), S("6")>>),
                     PyList(<<S("number"), S("is"), S("INC0010001")>>) >>)
    /\ requests # <<>>
    /\ requests[1].url = "https://dev.service-now.com/api/now/table/incident?sysparm_limit=50&sysparm_query=sysparm_query=^state!=6^number=INC0010001&sysparm_fields="

\* C3: a triple with only a field and an operator, flat or as an element of
\* a nested list, raises nothing in the compiler and is compiled exactly as
\* the same triple with value '': its clause is '^' + field + token.
C3_MissingValueIsEmpty ==
    LET sl == args.search_list
        flat == IsTriple(sl) /\ Len(sl.items) = 2 /\ ValidOperator(sl)
        nested == /\ IsNested(sl)
                  /\ \A i \in 1..Len(sl.items) : ValidOperator(sl.items[i])
                  /\ \E i \in 1..Len(sl.items) : Len(sl.items[i].items) = 2
        same == IF flat THEN Filled(sl) ELSE FilledAll(sl)
        other == search_begin(variant, self, args.table, same, args.custom,
                              args.fields)
    IN  (SearchCalled /\ (flat \/ nested))
        => /\ other.exc = "none"
           /\ requests = <<Request("GET", other.url)>>
           /\ GetIssued(IF flat THEN Clause(sl) ELSE Clauses(sl.items, 1))

C3_Witness ==
    /\ op = "search"
    /\ args.search_list =
           PyList(<< PyList(<<S("active"), S("Is Empty")>>),
                     PyList(<<S("number"), S("is"), S("INC0010001")>>) >>)
    /\ requests # <<>>
    /\ requests[1].url = "https://dev.service-now.com/api/now/table/incident?sysparm_limit=50&sysparm_query=sysparm_query=^activeISEMPTY^number=INC0010001&sysparm_fields="

\* C4: a flat triple or a nested list holding a triple whose operator is not
\* one of the 14 names (case-insensitively), at whatever position, makes
\* search raise InvalidValue with the message listing the valid names, and
\* no HTTP request is issued.
C4_UnknownOperatorRefused ==
    LET sl == args.search_list IN
    (/\ SearchCalled
     /\ \/ IsTriple(sl) /\ ~ValidOperator(sl)
        \/ /\ IsNested(sl)
           /\ \E i \in 1..Len(sl.items) : ~ValidOperator(sl.items[i]))
    => (Refused("InvalidValue") /\ ret.msg = ValidNamesMessage)

C4_Witness ==
    /\ op = "search"
    /\ args.search_list =
           PyList(<< PyList(<<S("number"), S("is"), S("INC0010001")>>),
                     PyList(<<S("number"), S("equals"), S("INC0010001")>>) >>)
    /\ Refused("InvalidValue")

\* C5: search called with an empty list fails with InvalidFormat and issues
\* no HTTP request.
C5_EmptyListRefused ==
    (SearchCalled /\ args.search_list = PyList(<<>>)) => Refused("InvalidFormat")

\* C6: search called with a list that mixes the forms (at least one element
\* a triple list, at least one element not a list) fails with InvalidFormat
\* and issues no HTTP request, wherever the non-triple element stands.
C6_MixedListRefused ==
    LET sl == args.search_list IN
    (/\ SearchCalled
     /\ sl.t = "list"
     /\ \E i \in 1..Len(sl.items) : IsTriple(sl.items[i])
     /\ \E j \in 1..Len(sl.items) : sl.items[j].t # "list")
    => Refused("InvalidFormat")

\* C7: a search_list that is neither a flat list [field, operator(, value)]
\* of strings nor a list whose elements are all such lists makes search fail
\* with InvalidFormat, with no other exception, and issue no HTTP request.
C7_MalformedListRefused ==
    LET sl == args.search_list IN
    (/\ SearchCalled
     /\ ~IsTriple(sl)
     /\ ~(sl.t = "list" /\ \A i \in 1..Len(sl.items) : IsTriple(sl.items[i])))
    => Refused("InvalidFormat")

BatchMethods ==
    {"update", "delete", "change_state", "get_file", "upload_file", "delete_file"}

\* The answer to the call's search GET is status 200 with zero records.
SearchMatchedNone == Len(answers) >= 1 /\ answers[1] = Success(200, <<>>)

\* C8: when the search answers 200 with zero records, search and every batch
\* method raise EmptyResult on a client constructed with empty_error=True and
\* return False on one constructed with empty_error=False; no mapping is
\* returned and nothing more is requested.
C8_EmptyResultPolicy ==
    (op \in BatchMethods \cup {"search"} /\ SearchMatchedNone)
    => /\ pc = "done"
       /\ Len(requests) = 1
       /\ IF self.empty_error
          THEN ret.kind = "raise" /\ ret.exc = "EmptyResult"
          ELSE ret.kind = "false"

C8_Witness ==
    /\ op = "delete_file"
    /\ SearchMatchedNone
    /\ ~self.empty_error
    /\ ret.kind = "false"

\* The records the call's search matched.
Matched == answers[1].result
\* The call's search matched at least one record.
SearchMatchedSome ==
    Len(answers) >= 1 /\ answers[1].status_code = 200 /\ Len(Matched) >= 1

\* C9: update and delete process every matched record, whatever the statuses
\* of the per-record answers, and return the mapping that gives each sys_id
\* 'true' if its own request got the success code (200 for update, 204 for
\* delete) and 'Error Code <status>, <detail>' of its own answer otherwise.
C9_PartialFailure ==
    (op \in {"update", "delete"} /\ pc = "done" /\ SearchMatchedSome)
    => /\ ret.kind = "dict"
       /\ Len(requests) = 1 + Len(Matched)
       /\ Len(answers) = 1 + Len(Matched)
       /\ DOMAIN ret.val = { Matched[i].sys_id : i \in 1..Len(Matched) }
       /\ \A i \in 1..Len(Matched) :
              ret.val[Matched[i].sys_id] =
                  IF answers[i + 1].status_code
                         = (IF op = "update" THEN 200 ELSE 204)
                  THEN "true"
                  ELSE "Error Code " \o IntToStr(answers[i + 1].status_code)
                           \o ", " \o answers[i + 1].error

C9_Witness ==
    /\ op = "update"
    /\ pc = "done"
    /\ Len(answers) = 3
    /\ answers[2].status_code = 500
    /\ answers[3].status_code = 200
    /\ ret.kind = "dict"
    /\ ret.val = ("a1" :> "Error Code 500, Server fault") @@ ("b2" :> "true")

EmailCalled ==
    /\ op = "send_email"
    /\ pc # "idle"
    /\ \A x \in {args.to, args.cc, args.bcc, args.subject, args.message,
                 args.table, args.sys_id} : x.t = "str"

\* The call's one request is the POST to the e-mail endpoint.
EmailPosted ==
    requests = <<Request("POST", self.instance \o "/api/now/v1/email")>>

\* C11: send_email called with exactly one of table and sys_id non-empty
\* fails with InvalidFormat before any HTTP request; called with both
\* non-empty or both empty, and a non-empty to, it passes validation and
\* issues the POST to /api/now/v1/email; in both client variants.
C11_TableAndSysIdPaired ==
    EmailCalled
    => /\ ((args.table.s = "") # (args.sys_id.s = ""))
              => Refused("InvalidFormat")
       /\ (((args.table.s = "") = (args.sys_id.s = "")) /\ args.to.s # "")
              => EmailPosted

\* C12: send_email called with an empty recipient to fails with
\* InvalidFormat and issues no HTTP request, in both client variants.
C12_MissingRecipientRefused ==
    (EmailCalled /\ args.to.s = "") => Refused("InvalidFormat")

\* The fixed tables of the state change: for a table other than 'problem'
\* state name -> (state code, close_code, close_notes); for 'problem'
\* state name -> (state code, work_notes, close_notes).
IncidentStates ==
    ("new" :> <<"1", "", "">>) @@ ("in progress" :> <<"2", "", "">>)
        @@ ("on hold" :> <<"3", "", "">>)
        @@ ("resolved" :> <<"6", "Solved (Permanently)", "Incident resolved">>)
        @@ ("closed" :> <<"7", "Solved (Permanently)", "Incident closed">>)
        @@ ("canceled" :> <<"8", "Closed/Resolved by Caller", "Incident canceled">>)
ProblemStates ==
    ("open" :> <<"1", "Problem in open state", "">>)
        @@ ("known error" :> <<"2", "Problem has known error", "">>)
        @@ ("pending change" :> <<"3", "Problem is pending change", "">>)
        @@ ("closed/resolved" :> <<"4", "Problem resolved", "Problem closed/resolved">>)

\* change_state has been called with a table and a state that are strings
\* and a search list that compiles.
StateCalled ==
    /\ op = "change_state"
    /\ pc # "idle"
    /\ args.table.t = "str"
    /\ args.state.t = "str"
    /\ ValidOperator(args.search_list)

\* The table kind of the call and its state names.
OnProblem == Lower(args.table.s) = "problem"
StateNames == IF OnProblem THEN DOMAIN ProblemStates ELSE DOMAIN IncidentStates

\* The body that goes with the call's table kind and state name.
StateBody ==
    LET st == Lower(args.state.s) IN
    IF OnProblem
    THEN "{\"close_notes\":\"" \o ProblemStates[st][3]
             \o "\",\"work_notes\":\"" \o ProblemStates[st][2]
             \o "\",\"state\":\"" \o ProblemStates[st][1] \o "\"}"
    ELSE "{\"close_code\":\"" \o IncidentStates[st][2]
             \o "\",\"close_notes\":\"" \o IncidentStates[st][3]
             \o "\",\"state\":\"" \o IncidentStates[st][1] \o "\"}"

\* C13: for every valid state name, in whatever case, every request
\* change_state sends after its search is a PUT whose body carries the values
\* of the fixed tables for that state (the problem triple on the table
\* 'problem', in whatever case, the incident triple on any other table), the
\* same body for every matched record, and every matched record gets one.
C13_StateBodies ==
    (StateCalled /\ Lower(args.state.s) \in StateNames)
    => /\ \A i \in 2..Len(requests) :
              /\ requests[i].verb = "PUT"
              /\ bodies[i] = StateBody
       /\ (pc = "done" /\ SearchMatchedSome)
              => Len(requests) = 1 + Len(Matched)

C13_Witness ==
    /\ op = "change_state"
    /\ pc = "done"
    /\ args.state = S("Resolved")
    /\ args.table = S("incident")
    /\ Len(bodies) = 3
    /\ bodies[2] = "{\"close_code\":\"Solved (Permanently)\",\"close_notes\":\"Incident resolved\",\"state\":\"6\"}"
    /\ bodies[3] = bodies[2]

\* C14: change_state called with a state whose lower-case form is not a name
\* of the table kind fails with InvalidValue listing the valid names of that
\* kind, whatever the search answers (zero records included) and for both
\* values of empty_error.
C14_UnknownStateRefused ==
    (StateCalled /\ Lower(args.state.s) \notin StateNames /\ pc = "done")
    => /\ ret.kind = "raise"
       /\ ret.exc = "InvalidValue"
       /\ ret.msg = "\"state\" invalid. Choose one of the following:\n"
                        \o (IF OnProblem
                            THEN "('open', 'known error', 'pending change', 'closed/resolved')"
                            ELSE "('new', 'in progress', 'on hold', 'resolved', 'closed', 'canceled')")

\* C15: whenever a call of a public method ends with InvalidFormat or
\* InvalidValue, that call has issued no HTTP request.
C15_ValidationBeforeNetwork ==
    (/\ pc = "done"
     /\ ret.kind = "raise"
     /\ ret.exc \in {"InvalidFormat", "InvalidValue"})
    => requests = <<>>

\* The status an operation takes for success.
SuccessCode == IF op = "create" THEN 201 ELSE 200

\* C16: create, search, send_email and read_email raise ResponseError exactly
\* when the status of the answer differs from the operation's success code
\* (201 for create, 200 for the others); otherwise they return the payload:
\* create the whole body, search a non-empty result list as received, the
\* e-mail operations the body's result.
C16_SuccessCodes ==
    (/\ op \in {"create", "search", "send_email", "read_email"}
     /\ Len(answers) >= 1)
    => /\ pc = "done"
       /\ (ret.kind = "raise" /\ ret.exc = "ResponseError")
              <=> (answers[1].status_code # SuccessCode)
       /\ (answers[1].status_code = SuccessCode)
              => CASE op = "create" -> ret = Return("json", answers[1])
                   [] op = "search" ->
                          (Len(answers[1].result) > 0
                              => ret = Return("list", answers[1].result))
                   [] OTHER -> ret = Return("result", answers[1].result[1])

C16_Witness ==
    /\ op = "create"
    /\ pc = "done"
    /\ Len(answers) = 1
    /\ answers[1].status_code = 200
    /\ ret.kind = "raise"
    /\ ret.exc = "ResponseError"
    /\ ret.msg = "Error code = 200 , Error details = {'result': {'sys_id': 'd4', 'number': 'INC4'}}"

\* C17: in the mapping upload_file returns, a record whose own upload POST
\* was answered with a failure status is mapped to 'Error Code <status>,
\* <detail>' of that answer, and a record is mapped to 'true' only if its own
\* upload POST succeeded.
C17_UploadOutcomeIsOwn ==
    (op = "upload_file" /\ pc = "done" /\ ret.kind = "dict" /\ SearchMatchedSome)
    => \A i \in 1..Len(Matched) :
           ret.val[Matched[i].number] =
               IF answers[i + 1].status_code \in {200, 201} THEN "true"
               ELSE "Error Code " \o IntToStr(answers[i + 1].status_code)
                        \o ", " \o answers[i + 1].error

\* text begins with prefix.
StartsWith(text, prefix) ==
    /\ Len(prefix) <= Len(text)
    /\ SubSeq(text, 1, Len(prefix)) = prefix

\* The address of the table as the call's custom flag chooses it.
TableRoot ==
    self.instance
        \o (IF args.custom THEN args.table.s ELSE "/api/now/table/" \o args.table.s)

\* C18: in the client that takes a custom flag, every request a call
\* addresses to the table (the POST of create, the search GET of search and
\* of the batch methods, the per-record request of update, delete and
\* change_state) goes to the table argument verbatim when custom is true and
\* to '/api/now/table/<table>' when it is false, for every table.
C18_CustomPathUsed ==
    (/\ variant = "package"
     /\ op \in BatchMethods \cup {"search", "create"}
     /\ args.table.t = "str")
    => \A i \in 1..Len(requests) :
           IF op = "create" THEN requests[i].url = TableRoot
           ELSE IF i = 1
           THEN StartsWith(requests[i].url,
                           TableRoot \o "?sysparm_limit=50&sysparm_query=sysparm_query=")
           ELSE op \in {"update", "delete", "change_state"}
                    => \E k \in 1..Len(Matched) :
                           requests[i].url = TableRoot \o "/" \o Matched[k].sys_id

RECURSIVE ListingsFrom(_)
\* The answers to the attachment listings of a get_file or delete_file call,
\* in order, from the call's i-th answer on.
ListingsFrom(i) ==
    IF i > Len(answers) THEN <<>>
    ELSE (IF op = "get_file" \/ requests[i].verb = "GET" THEN <<answers[i]>>
          ELSE <<>>) \o ListingsFrom(i + 1)
Listings == ListingsFrom(2)

RECURSIVE ListedFrom(_)
\* The attachments those listings gave, in order.
ListedFrom(i) ==
    IF i > Len(Listings) THEN <<>>
    ELSE Listings[i].result \o ListedFrom(i + 1)
Listed == ListedFrom(1)

\* The attachment is one the call asks for: its name ends with the suffix
\* (get_file) or equals the name (delete_file).
Wanted(f) ==
    IF op = "get_file"
    THEN \E k \in 0..Len(f.file_name) :
             SubSeq(f.file_name, k + 1, Len(f.file_name)) = args.type.s
    ELSE f.file_name = args.file_name.s

Deletes == SelectSeq(requests, LAMBDA r : r.verb = "DELETE")
Exact == SelectSeq(Listed, LAMBDA f : f.file_name = args.file_name.s)

\* C20: delete_file issues a DELETE for an attachment if and only if the
\* attachment was listed for a record matched by the call's search and its
\* file_name equals the supplied name: the DELETEs are, in order, those of
\* the listed attachments of that name, none is issued for another name, and
\* only the attachments of matched records are listed.
C20_OnlyExactNameDeleted ==
    (op = "delete_file")
    => /\ Len(Deletes) <= Len(Exact)
       /\ \A i \in 1..Len(Deletes) :
              Deletes[i].url
                  = self.instance \o "/api/now/attachment/" \o Exact[i].sys_id
       /\ (pc = "done") => (Len(Deletes) = Len(Exact))
       /\ \A i \in 2..Len(requests) :
              (requests[i].verb = "GET")
              => \E k \in 1..Len(Matched) :
                     requests[i].url
                         = self.instance
                             \o "/api/now/attachment?sysparm_limit=50&sysparm_query=sysparm_query=active=true^table_sys_id="
                             \o Matched[k].sys_id

C20_Witness ==
    /\ op = "delete_file"
    /\ pc = "done"
    /\ args.file_name = S("report.txt")
    /\ Len(Listed) = 2
    /\ Listed[1].file_name = "report.txt"
    /\ Listed[2].file_name = "old_report.txt"
    /\ Len(Deletes) = 1
    /\ Deletes[1].url = "https://dev.service-now.com/api/now/attachment/f1"

\* The verb of the per-record request of update in each client.
RecordVerb == IF variant = "package" THEN "PATCH" ELSE "PUT"

\* C21: an update call whose search matches N >= 1 records issues its
\* requests one at a time, each only after the answer to the previous one
\* has been read: first one search GET with page size 50, then one PUT
\* (PATCH in the client with the custom flag) per matched record, in the
\* order of the search result, addressed to that record's sys_id; when the
\* call has returned it has issued exactly N+1 requests, none of them twice.
C21_UpdateRequestSequence ==
    (op = "update" /\ SearchMatchedSome)
    => /\ Len(requests) <= Len(answers) + 1
       /\ Len(requests) <= Len(Matched) + 1
       /\ requests[1].verb = "GET"
       /\ \E k \in 1..Len(requests[1].url) :
              SubSeq(requests[1].url, k, k + 17) = "?sysparm_limit=50&"
       /\ \A i \in 2..Len(requests) :
              /\ requests[i].verb = RecordVerb
              /\ requests[i].url = TableRoot \o "/" \o Matched[i - 1].sys_id
       /\ (pc = "done")
          => /\ Len(requests) = Len(Matched) + 1
             /\ Len(answers) = Len(Matched) + 1
             /\ ret.kind = "dict"

C21_Witness ==
    /\ op = "update"
    /\ variant = "package"
    /\ pc = "done"
    /\ SearchMatchedSome
    /\ Len(Matched) = 2
    /\ Len(requests) = 3
    /\ requests[2] = Request("PATCH", "https://dev.service-now.com/api/now/table/incident/" \o Matched[1].sys_id)
    /\ requests[3] = Request("PATCH", "https://dev.service-now.com/api/now/table/incident/" \o Matched[2].sys_id)
    /\ answers[2].status_code = 500

\* The fields the search of each batch method is to ask for.
WantedFields ==
    IF op \in {"update", "delete"} THEN "sys_id" ELSE "number,sys_id"

\* C22: in both clients the search GET of update and of delete ends with
\* sysparm_fields=sys_id, and the search GET of change_state, get_file,
\* upload_file and delete_file ends with sysparm_fields=number,sys_id.
C22_SearchFieldsRequested ==
    (op \in BatchMethods /\ Len(requests) >= 1)
    => /\ requests[1].verb = "GET"
       /\ EndsWith(requests[1].url, "&sysparm_fields=" \o WantedFields)

\* C23: in get_file and delete_file, when the listing GET of a matched record
\* is answered with a status other than 200, the call does not end with an
\* exception raised by that answer, the outcome held for that record when the
\* call ends is 'Error Code <status>, <detail>' of that answer, and the
\* attachments of every matched record have been listed.
C23_ListingFailureRecorded ==
    (/\ op \in {"get_file", "delete_file"}
     /\ pc = "done"
     /\ SearchMatchedSome
     /\ \E j \in 1..Len(Listings) : Listings[j].status_code # 200)
    => /\ Len(Listings) = Len(Matched)
       /\ ret.kind = "raise" => ret.exc = "EmptyResult"
       /\ \A j \in 1..Len(Listings) :
              (Listings[j].status_code # 200)
              => /\ Matched[j].number \in DOMAIN result
                 /\ result[Matched[j].number]
                        = "Error Code " \o IntToStr(Listings[j].status_code)
                              \o ", " \o Listings[j].error

\* The j-th matched record has an attachment the call asks for.
HasWanted(j) ==
    \E k \in 1..Len(Listings[j].result) : Wanted(Listings[j].result[k])

\* C24: in a mapping returned by get_file or delete_file after every listing
\* was answered 200, a matched record is mapped to 'false' exactly when none
\* of its listed attachments is one the call asks for (a record without
\* attachments included), and a record mapped to 'true' has at least one
\* that is.
C24_FalseIffNoMatch ==
    (/\ op \in {"get_file", "delete_file"}
     /\ pc = "done"
     /\ ret.kind = "dict"
     /\ SearchMatchedSome
     /\ \A i \in 1..Len(Listings) : Listings[i].status_code = 200)
    => /\ Len(Listings) = Len(Matched)
       /\ \A j \in 1..Len(Matched) :
              /\ (ret.val[Matched[j].number] = "false") <=> ~HasWanted(j)
              /\ (ret.val[Matched[j].number] = "true") => HasWanted(j)

\* The configuration of the client.
Configuration ==
    <<self.instance, self.username, self.password, self.headers,
      self.empty_error>>

\* The configuration is what the constructor makes of ('dev', 'admin',
\* 'secret'), and a call that ended by the empty-result policy applied the
\* client's empty_error.
ConfigurationAsConstructed ==
    /\ self.instance = "https://dev.service-now.com"
    /\ self.username = "admin"
    /\ self.password = "secret"
    /\ self.headers = << <<"Content-Type", "application/json">>,
                         <<"Accept", "application/json">> >>
    /\ (ret.kind = "raise" /\ ret.exc = "EmptyResult") => self.empty_error
    /\ (ret.kind = "false") => ~self.empty_error

\* C25: no step of any operation, ending well or with an exception, changes
\* the instance URL, username, password, default headers or empty_error of
\* the client, so that they stay what the constructor set, and the
\* empty-result policy a call applies is the client's empty_error.
C25_ConfigurationKept ==
    /\ []ConfigurationAsConstructed
    /\ [][Configuration' = Configuration]_vars

C25_Witness ==
    /\ op = "upload_file"
    /\ pc = "done"
    /\ ret.kind = "dict"
    /\ Len(requests) = 3
    /\ requests[3].verb = "POST"
    /\ self.url = requests[3].url
    /\ self.headers = << <<"Content-Type", "application/json">>,
                         <<"Accept", "application/json">> >>
    /\ self.empty_error

\* A list the call was given as x is y afterwards: the same, or x had exactly
\* two elements and y is x with '' as its third.
Kept(x, y) ==
    \/ y = x
    \/ /\ x.t = "list"
       /\ Len(x.items) = 2
       /\ y = PyList(Append(x.items, PyStr("")))

\* C27: whatever search is called with and however the call ends, the list
\* object it was given differs from what it was only by '' inserted at
\* index 2 of a list of exactly two elements (the list itself when it is a
\* flat triple, or a triple nested in it): no element already present is
\* changed, removed or moved, and a triple of three elements is as it was.
\* A second call with the same list object leaves it as the first call left
\* it and, when the first call compiled a query, requests the same URL.
C27_FilterSpecificationKept ==
    (op \in {"search", "search_again"} /\ pc # "idle")
    => LET b == args.search_list
           a == args.search_list_now
       IN  /\ a.t = b.t
           /\ a.s = b.s
           /\ Len(a.items) >= Len(b.items)
           /\ Len(a.items) > Len(b.items)
              => /\ b.t = "list"
                 /\ Len(b.items) = 2
                 /\ a.items[3] = PyStr("")
                 /\ Len(a.items) = 3
           /\ \A i \in 1..Len(b.items) :
                  /\ Kept(b.items[i], a.items[i])
                  /\ IsFullTriple(b.items[i]) => a.items[i] = b.items[i]
           /\ IsFullTriple(b) => a = b
           /\ (op = "search_again")
              => /\ a = b
                 /\ Len(answers) >= 1 => Len(requests) = 2
                 /\ Len(requests) = 2 => requests[2].url = requests[1].url

C27_Witness ==
    /\ op = "search_again"
    /\ pc = "done"
    /\ args.search_list
           = PyList(<<PyList(<<PyStr("active"), PyStr("Is Empty"), PyStr("")>>),
                      PyList(<<PyStr("state"), PyStr("IS NOT"), PyStr("6")>>)>>)
    /\ Len(requests) = 2
    /\ requests[1].url = "https://dev.service-now.com/api/now/table/incident?sysparm_limit=50&sysparm_query=sysparm_query=^activeISEMPTY^state!=6&sysparm_fields="
    /\ Len(answers) = 2
    /\ Len(answers[2].result) = 2

\* The positions, among the call's requests, of those that write: PUT, PATCH
\* or DELETE.
Writes == { i \in 1..Len(requests) : requests[i].verb \in {"PUT", "PATCH", "DELETE"} }

\* The call's search returned records: its answer is status 200 with at least
\* one.
SearchReturned == SearchMatchedSome

\* C28: every PUT, PATCH or DELETE that update, delete or change_state issues
\* ends with '/<sys_id>' of a record that the search of the same call
\* returned, no two of them address the same record, and a call whose search
\* returned no record or failed issues none.
C28_WritesOnlyToMatched ==
    (op \in {"update", "delete", "change_state"})
    => /\ \A i \in Writes :
              /\ SearchReturned
              /\ \E k \in 1..Len(Matched) :
                     EndsWith(requests[i].url, "/" \o Matched[k].sys_id)
       /\ \A i, j \in Writes :
              (i # j) => requests[i].url # requests[j].url
       /\ Len(answers) >= 1 /\ ~SearchReturned
          => /\ Writes = {}
             /\ pc = "done"
             /\ Len(requests) = 1

C28_Witness ==
    /\ op = "delete"
    /\ pc = "done"
    /\ SearchReturned
    /\ Len(Matched) = 2
    /\ Writes = {2, 3}
    /\ requests[2].url = "https://dev.service-now.com/api/now/table/incident/" \o Matched[1].sys_id
    /\ requests[3].url = "https://dev.service-now.com/api/now/table/incident/" \o Matched[2].sys_id
    /\ answers[2].status_code = 404

\* C29: a change_state call whose state name, in lower case, is not a name
\* of its table kind issues no request but its search GET, whatever the
\* search answers; when the search returned records the call ends with
\* InvalidValue raised in the first pass of its loop, before any record has
\* an outcome, so that no matched record is transitioned.
C29_InvalidStateWritesNothing ==
    (StateCalled /\ Lower(args.state.s) \notin StateNames)
    => /\ Len(requests) <= 1
       /\ \A i \in 1..Len(requests) : requests[i].verb = "GET"
       /\ Len(answers) >= 1 => pc = "done"
       /\ SearchMatchedSome
          => /\ ret.kind = "raise"
             /\ ret.exc = "InvalidValue"
             /\ idx = 1
             /\ result = EmptyDict
             /\ Len(answers) = 1

C29_Witness ==
    /\ op = "change_state"
    /\ pc = "done"
    /\ args.table = S("Problem")
    /\ args.state = S("Resolved")
    /\ SearchMatchedSome
    /\ Len(Matched) = 2
    /\ requests = <<Request("GET", "https://dev.service-now.com/api/now/table/problem?sysparm_limit=50&sysparm_query=sysparm_query=^number=INC0010001&sysparm_fields=number,sys_id")>>
    /\ ret.exc = "InvalidValue"

\* The two invocations run on separate client instances.
Separate == threads[1].client # threads[2].client

\* The URL of thread t's i-th record and the outcome its own i-th answer
\* gives that record.
OwnUrl(t, i) ==
    self.instance \o "/api/now/table/incident/"
        \o threads[t].incident_list[i].sys_id
OwnOutcome(t, i) ==
    IF threads[t].answers[i].status_code
           = (IF threads[t].op = "update" THEN 200 ELSE 204)
    THEN "true"
    ELSE "Error Code " \o IntToStr(threads[t].answers[i].status_code)
             \o ", " \o threads[t].answers[i].error

\* Thread t has sent each of its requests to the URL of its own record and
\* holds for each record the outcome of its own answer.
Isolated(t) ==
    /\ \A i \in 1..Len(threads[t].requests) :
           threads[t].requests[i].url = OwnUrl(t, i)
    /\ \A i \in 1..Len(threads[t].incident_list) :
           (threads[t].incident_list[i].sys_id \in DOMAIN threads[t].result)
           => /\ i <= Len(threads[t].answers)
              /\ threads[t].result[threads[t].incident_list[i].sys_id]
                     = OwnOutcome(t, i)
    /\ threads[t].ret.kind # "raise"
    /\ (threads[t].pc = "done")
       => DOMAIN threads[t].ret.val
              = { threads[t].incident_list[i].sys_id :
                      i \in 1..Len(threads[t].incident_list) }

\* C26: when two batch operations run at the same time on two separate
\* client instances, under every interleaving each sends its requests to the
\* URLs of its own records and records for each record the outcome of its
\* own answer; on one shared instance that fails, as the state of
\* C26_Witness shows: an invocation sends its request to the URL the other
\* wrote to self.url and records for its record the outcome of the answer
\* the other wrote to self.response.
C26_SeparateInstancesIsolated ==
    Separate => (Isolated(1) /\ Isolated(2))

C26_Witness ==
    /\ ~Separate
    /\ threads[1].pc = "done"
    /\ threads[2].pc = "done"
    /\ threads[1].op = "update"
    /\ threads[2].op = "delete"
    /\ threads[1].incident_list = FirstMatched(1)
    /\ threads[1].requests[1].url = OwnUrl(2, 1)
    /\ threads[1].answers[1].status_code = 200
    /\ threads[2].answers[1].status_code = 404
    /\ threads[1].ret.kind = "dict"
    /\ threads[1].ret.val["a1"] = "Error Code 404, No Record found"

====
